---- MODULE Spec2Model ----
(***************************************************************************)
(* VoicePad: the generation dispatcher of pkg/llm (OllamaLLMClient and     *)
(* NvidiaLLMClient).  One buffered request channel, one worker goroutine,  *)
(* any number of callers of GenerateResponse and of Close.                 *)
(***************************************************************************)
EXTENDS Integers, Sequences, FiniteSets, TLC

(* ---------------------------------------------------------------------- *)
(* Bounds of the model                                                     *)
(* ---------------------------------------------------------------------- *)
\* calls of GenerateResponse in the serve scenario
ServeCalls == 3
\* caller contexts that may fire in the serve scenario
ServeCancels == 2
\* calls of GenerateResponse in the close scenario
CloseCalls == 2
\* provider calls that may fail or time out
MaxFails == 1
\* callers beyond the capacity of the request channel in the burst scenario
BurstExtra == 1
\* goroutines that call Close
NumClosers == 2
\* provider calls that end within the horizon of the burst scenario
BurstEnds == 1

(* ---------------------------------------------------------------------- *)
(* Program constants                                                       *)
(* ---------------------------------------------------------------------- *)
\* make(chan llmRequest, 10)
QueueCap == 10
\* make(chan *LLMResponse, 1), make(chan error, 1)
SlotCap == 1

\* the zero value of llmRequest: what a receive from the closed, drained
\* channel yields; its resultCh and errCh are nil
ZeroReq == 0

Variants == {"ollama", "nvidia"}

\* characters of the instruction strings
SP == " "
NL == "\n"
TAB == "\t"
CR == "\r"
FF == "\f"
VT == ""
NEL == ""
NBSP == " "
Instructions == { <<>>, <<FF, NBSP>>, <<SP, "a", NL>> }

MaxCalls == QueueCap + BurstExtra
CallIds == 1..MaxCalls
Closers == 1..NumClosers

\* the scenarios a run is driven with: how many callers there are and how
\* many of the environment's choices (cancellations, provider failures,
\* blank instructions, calls of Close) it may take.  "serve" exercises an
\* open dispatcher, "close" the calls of Close against callers and worker,
\* "burst" more callers than the channel has slots while the provider
\* answers only the first calls
Scenarios ==
    { [name |-> "serve", calls |-> ServeCalls, cancels |-> ServeCancels,
       fails |-> MaxFails, blanks |-> 1, closers |-> 0, ends |-> ServeCalls],
      [name |-> "close", calls |-> CloseCalls, cancels |-> 1,
       fails |-> MaxFails, blanks |-> 0, closers |-> NumClosers, ends |-> CloseCalls + 1],
      [name |-> "burst", calls |-> QueueCap + BurstExtra, cancels |-> 1,
       fails |-> 0, blanks |-> 0, closers |-> 1, ends |-> BurstEnds] }

VARIABLES
    scenario,     \* the driver's budget (see Scenarios)
    variant,      \* which client this dispatcher is
    calls,        \* per GenerateResponse call: pc, instruction, return value
    ctxFired,     \* calls whose own ctx is done
    requestChan,  \* c.requestChan: the buffered requests, oldest first
    chanClosed,   \* close(c.requestChan) has run
    ctxDone,      \* c.ctx is cancelled
    onceDone,     \* c.closeOnce: done flag
    onceLocked,   \* c.closeOnce: its mutex is held (f is running)
    closers,      \* per Close call: pc
    wpc,          \* worker: "select", "call", "nilsend", "returned"
    active,       \* provider calls in progress (requests)
    ctxAtCall,    \* c.ctx was already cancelled when the call under way began
    resultCh,     \* per request: contents of its resultCh
    errCh,        \* per request: contents of its errCh
    enqLog,       \* history: requests in the order they were enqueued
    startLog,     \* history: requests in the order their provider call began
    endLog,       \* history: requests in the order their provider call ended
    cancelCount,  \* history: times c.cancel() ran
    closeCount,   \* history: times close(c.requestChan) ran
    parked,       \* history: calls that blocked on the full channel
    panicked      \* "none", or the runtime panic that ended the process

\* the whiteboard view and its debounced notifier
VARIABLES
    now,                  \* the clock, in ms
    mounted,              \* the Whiteboard component is mounted
    timeoutRef,           \* timeoutRef.current: a timer handle, or NoTimer
    pendingArgsRef,       \* pendingArgsRef.current: << >> (null) or << args >>
    callbackRef,          \* callbackRef.current: which render's callback
    timers,               \* the event loop's timers: [id, due]
    timerSeq,             \* handles handed out by setTimeout so far
    previousElementsRef,  \* previousElementsRef.current
    elements,             \* the elements state (setElements)
    callLog,              \* history: calls of the debounced notifier
    changeLog,            \* history: calls of handleChange
    delivered             \* history: invocations of the downstream callback

frontVars == << now, mounted, timeoutRef, pendingArgsRef, callbackRef, timers,
                timerSeq, previousElementsRef, elements, callLog, changeLog,
                delivered >>

\* how GenerateResponse prepares a request and what the provider is sent
VARIABLES
    pStage,        \* "idle", "rejected", "built", "sent"
    pPrompt,       \* the prompt argument
    pBoard,        \* the boardState argument
    userPrompt,    \* llmRequest.prompt
    systemPrompt,  \* llmRequest.systemPrompt
    providerReq    \* the messages of the request made to the provider

promptVars == << pStage, pPrompt, pBoard, userPrompt, systemPrompt, providerReq >>

\* construction of a client and one call of its provider
VARIABLES
    built,      \* the last construction: what was asked and what came back
    workers,    \* history: workers started (go client.worker())
    provCall    \* the last call of generateResponseSync: reply and result

clientVars == << built, workers, provCall >>

\* the text stream handler of the board topic
VARIABLES
    streamLog,      \* history: per message, how the handler ended
    canvasUpdates   \* history: the arguments onCanvasUpdate was invoked with

streamVars == << streamLog, canvasUpdates >>

\* the scene of the editor and the actions applied to it
VARIABLES
    scene,      \* the editor's scene elements, in order
    mergeLog    \* history: per step, the scene before, the action, the outcome

mergeVars == << scene, mergeLog >>

laterVars == << clientVars, streamVars, mergeVars >>

dispVars == << scenario, variant, calls, ctxFired, requestChan, chanClosed, ctxDone,
               onceDone, onceLocked, closers, wpc, active, ctxAtCall, resultCh,
               errCh, enqLog, startLog, endLog, cancelCount, closeCount, parked, panicked >>

\* what no step of the dispatcher touches
otherVars == << frontVars, promptVars, laterVars >>

vars == << dispVars, otherVars >>

(* ---------------------------------------------------------------------- *)
(* strings.TrimSpace                                                       *)
(* ---------------------------------------------------------------------- *)
\* unicode.IsSpace, the test of strings.TrimSpace: the Latin-1 white space
\* '\t', '\n', '\v', '\f', '\r', ' ', U+0085, U+00A0, and the other characters
\* of the White_Space property, each written by its code point since the
\* module's character set has no sign for it
IsSpace(ch) ==
    ch \in { TAB, NL, VT, FF, CR, SP, NEL, NBSP,
             "U+1680", "U+2000", "U+2001", "U+2002", "U+2003", "U+2004", "U+2005",
             "U+2006", "U+2007", "U+2008", "U+2009", "U+200A", "U+2028", "U+2029",
             "U+202F", "U+205F", "U+3000" }

RECURSIVE TrimLeft(_)
TrimLeft(s) ==
    IF s = <<>> THEN <<>>
    ELSE IF IsSpace(Head(s)) THEN TrimLeft(Tail(s)) ELSE s

RECURSIVE TrimRight(_)
TrimRight(s) ==
    IF s = <<>> THEN <<>>
    ELSE IF IsSpace(s[Len(s)]) THEN TrimRight(SubSeq(s, 1, Len(s) - 1)) ELSE s

TrimSpace(s) == TrimRight(TrimLeft(s))

\* a plausible slip: the test without the trim
IsEmptyInput_noTrim(instr) == instr = <<>>

\* GenerateResponse's first test: strings.TrimSpace(prompt) == ""
IsEmptyInput(instr) == TrimSpace(instr) = <<>>

(* ---------------------------------------------------------------------- *)
(* Helpers                                                                 *)
(* ---------------------------------------------------------------------- *)
NoRet == [kind |-> "none", src |-> ZeroReq]
Ret(k, r) == [kind |-> k, src |-> r]

Count(S) == Cardinality(S)

Blanks == { c \in CallIds : calls[c].ret.kind = "EmptyInput" }
Failed == { i \in 1..Len(endLog) : endLog[i].kind # "Response" }

Alive == panicked = "none"

\* no timer handle: useRef(null)
NoTimer == 0

\* the first render's callback
FirstRender == 1

\* the Whiteboard component right after its first render
FrontInit ==
    /\ now = 0
    /\ mounted = TRUE
    /\ timeoutRef = NoTimer
    /\ pendingArgsRef = << >>
    /\ callbackRef = FirstRender
    /\ timers = {}
    /\ timerSeq = 0
    /\ previousElementsRef = << >>
    /\ elements = << >>
    /\ callLog = << >>
    /\ changeLog = << >>
    /\ delivered = << >>

\* the dispatcher right after NewOllamaLLMClient / NewNvidiaLLMClient
DispInit ==
    /\ scenario \in Scenarios
    /\ variant \in Variants
    /\ calls = [c \in CallIds |-> [pc |-> "idle", instr |-> <<>>, ret |-> NoRet]]
    /\ ctxFired = {}
    /\ requestChan = <<>>
    /\ chanClosed = FALSE
    /\ ctxDone = FALSE
    /\ onceDone = FALSE
    /\ onceLocked = FALSE
    /\ closers = [k \in Closers |-> "idle"]
    /\ wpc = "select"
    /\ active = {}
    /\ ctxAtCall = FALSE
    /\ resultCh = [c \in CallIds |-> <<>>]
    /\ errCh = [c \in CallIds |-> <<>>]
    /\ enqLog = <<>>
    /\ startLog = <<>>
    /\ endLog = <<>>
    /\ cancelCount = 0
    /\ closeCount = 0
    /\ parked = {}
    /\ panicked = "none"

\* no call of GenerateResponse under way
PromptInit ==
    /\ pStage = "idle"
    /\ pPrompt = << >>
    /\ pBoard = << >>
    /\ userPrompt = << >>
    /\ systemPrompt = << >>
    /\ providerReq = << >>

\* nothing constructed through the model's driver, no provider call made
NotBuilt == [via |-> "none", provider |-> "", host |-> << >>, model |-> << >>,
             apiKey |-> << >>, client |-> "nil", err |-> "none"]

NoCall == [client |-> "nil", reply |-> << >>, kind |-> "none", text |-> << >>]

LaterInit ==
    /\ built = NotBuilt
    /\ workers = 0
    /\ provCall = NoCall
    /\ streamLog = << >>
    /\ canvasUpdates = << >>
    /\ scene = << >>
    /\ mergeLog = << >>

Init == DispInit /\ FrontInit /\ PromptInit /\ LaterInit

(* ---------------------------------------------------------------------- *)
(* GenerateResponse: entry, validation, first select                       *)
(* ---------------------------------------------------------------------- *)
\* calls are numbered in the order in which they are made
NextCall(c) ==
    /\ c <= scenario.calls
    /\ calls[c].pc = "idle"
    /\ \A d \in CallIds : d < c => calls[d].pc # "idle"

SetCall(c, pc, instr, ret) ==
    calls' = [calls EXCEPT ![c] = [pc |-> pc, instr |-> instr, ret |-> ret]]

\* a slip: the buffer is taken to have one more slot than it has
ChanHasRoom_offByOne == Len(requestChan) <= QueueCap

\* the send case of the first select can proceed: there is room in the buffer
ChanHasRoom == Len(requestChan) < QueueCap

\* a slip: the request is put on the channel twice
Enqueue_twice(q, r) == Append(Append(q, r), r)

\* c.requestChan <- llmRequest{...}
Enqueue(q, r) == Append(q, r)

DoEnqueue(c) ==
    /\ requestChan' = Enqueue(requestChan, c)
    /\ enqLog' = Append(enqLog, c)

\* a slip: the cancelled caller takes its request back out of the channel
AfterCancel_withdraw(q, c) == SelectSeq(q, LAMBDA r : r # c)

\* case <-ctx.Done(): return nil, ctx.Err() leaves the channel as it is
AfterCancel(q, c) == q

\* a slip: one result channel shared by all requests
SlotOf_shared(r) == 1

\* the channels a request carries are its own: made by its caller
SlotOf(r) == r

\* what no caller step touches
CallerFrame == << scenario, variant, chanClosed, ctxDone, onceDone, onceLocked,
                  closers, wpc, active, ctxAtCall, startLog, endLog, cancelCount,
                  closeCount, otherVars >>

\* if strings.TrimSpace(prompt) == "" { return nil, fmt.Errorf("empty text provided") }
CallEmpty(c, instr) ==
    /\ Alive /\ NextCall(c)
    /\ IsEmptyInput(instr)
    /\ Count(Blanks) < scenario.blanks
    /\ SetCall(c, "done", instr, Ret("EmptyInput", ZeroReq))
    /\ UNCHANGED << CallerFrame, ctxFired, requestChan, enqLog, resultCh, errCh,
                    parked, panicked >>

\* first select, the send proceeds at once
CallEnqueue(c, instr) ==
    /\ Alive /\ NextCall(c)
    /\ ~IsEmptyInput(instr)
    /\ ~chanClosed /\ ChanHasRoom
    /\ DoEnqueue(c)
    /\ SetCall(c, "wait", instr, NoRet)
    /\ UNCHANGED << CallerFrame, ctxFired, resultCh, errCh, parked, panicked >>

\* first select, the send case is chosen on a closed channel: runtime panic
CallPanic(c, instr) ==
    /\ Alive /\ NextCall(c)
    /\ ~IsEmptyInput(instr)
    /\ chanClosed
    /\ SetCall(c, "send", instr, NoRet)
    /\ panicked' = "send on closed channel"
    /\ UNCHANGED << CallerFrame, ctxFired, requestChan, enqLog, resultCh, errCh, parked >>

\* first select, case <-ctx.Done(): return nil, ctx.Err()
CallCancelled(c, instr) ==
    /\ Alive /\ NextCall(c)
    /\ ~IsEmptyInput(instr)
    /\ c \in ctxFired
    /\ SetCall(c, "done", instr, Ret("Cancelled", ZeroReq))
    /\ UNCHANGED << CallerFrame, ctxFired, requestChan, enqLog, resultCh, errCh,
                    parked, panicked >>

\* first select, no case ready: the caller parks on the full channel
CallPark(c, instr) ==
    /\ Alive /\ NextCall(c)
    /\ ~IsEmptyInput(instr)
    /\ ~chanClosed /\ ~ChanHasRoom /\ c \notin ctxFired
    /\ SetCall(c, "send", instr, NoRet)
    /\ parked' = parked \cup {c}
    /\ UNCHANGED << CallerFrame, ctxFired, requestChan, enqLog, resultCh, errCh, panicked >>

\* a parked sender is woken by a free slot
SendEnqueue(c) ==
    /\ Alive /\ calls[c].pc = "send"
    /\ ~chanClosed /\ ChanHasRoom
    /\ DoEnqueue(c)
    /\ SetCall(c, "wait", calls[c].instr, NoRet)
    /\ UNCHANGED << CallerFrame, ctxFired, resultCh, errCh, parked, panicked >>

\* a parked sender is woken by close(c.requestChan): runtime panic
SendPanic(c) ==
    /\ Alive /\ calls[c].pc = "send"
    /\ chanClosed
    /\ panicked' = "send on closed channel"
    /\ UNCHANGED << CallerFrame, calls, ctxFired, requestChan, enqLog, resultCh, errCh,
                    parked >>

\* a parked sender is woken by its ctx
SendCancelled(c) ==
    /\ Alive /\ calls[c].pc = "send"
    /\ c \in ctxFired
    /\ SetCall(c, "done", calls[c].instr, Ret("Cancelled", ZeroReq))
    /\ UNCHANGED << CallerFrame, ctxFired, requestChan, enqLog, resultCh, errCh,
                    parked, panicked >>

(* ---------------------------------------------------------------------- *)
(* GenerateResponse: second select                                         *)
(* ---------------------------------------------------------------------- *)
\* case result := <-resultCh: return result, nil
RecvResult(c) ==
    /\ Alive /\ calls[c].pc = "wait"
    /\ resultCh[SlotOf(c)] # <<>>
    /\ SetCall(c, "done", calls[c].instr, Head(resultCh[SlotOf(c)]))
    /\ resultCh' = [resultCh EXCEPT ![SlotOf(c)] = Tail(@)]
    /\ UNCHANGED << CallerFrame, ctxFired, requestChan, enqLog, errCh, parked, panicked >>

\* case err := <-errCh: return nil, err
RecvErr(c) ==
    /\ Alive /\ calls[c].pc = "wait"
    /\ errCh[SlotOf(c)] # <<>>
    /\ SetCall(c, "done", calls[c].instr, Head(errCh[SlotOf(c)]))
    /\ errCh' = [errCh EXCEPT ![SlotOf(c)] = Tail(@)]
    /\ UNCHANGED << CallerFrame, ctxFired, requestChan, enqLog, resultCh, parked, panicked >>

\* case <-ctx.Done(): return nil, ctx.Err()
WaitCancelled(c) ==
    /\ Alive /\ calls[c].pc = "wait"
    /\ c \in ctxFired
    /\ SetCall(c, "done", calls[c].instr, Ret("Cancelled", ZeroReq))
    /\ requestChan' = AfterCancel(requestChan, c)
    /\ UNCHANGED << CallerFrame, ctxFired, enqLog, resultCh, errCh, parked, panicked >>

\* the caller's context is cancelled or reaches its deadline (environment)
CtxFire(c) ==
    /\ Alive
    /\ c <= scenario.calls
    /\ c \notin ctxFired
    /\ calls[c].pc # "done"
    /\ \A d \in CallIds : d < c => calls[d].pc # "idle"
    /\ Count(ctxFired) < scenario.cancels
    /\ ctxFired' = ctxFired \cup {c}
    /\ UNCHANGED << CallerFrame, calls, requestChan, enqLog, resultCh, errCh,
                    parked, panicked >>

(* ---------------------------------------------------------------------- *)
(* worker                                                                  *)
(* ---------------------------------------------------------------------- *)
WorkerFrame == << scenario, variant, calls, ctxFired, chanClosed, ctxDone, onceDone,
                  onceLocked, closers, enqLog, cancelCount, closeCount, parked, panicked,
                  otherVars >>

\* a slip: one goroutine per request, the loop goes back to the select at once
WorkerAtSelect_spawn == wpc \in {"select", "call"}

\* the worker is at the select of its loop
WorkerAtSelect == wpc = "select"

\* a slip: the newest request is taken
Receive_last(q) == [req |-> q[Len(q)], rest |-> SubSeq(q, 1, Len(q) - 1)]

\* req := <-c.requestChan on a non-empty buffer
Receive(q) == [req |-> Head(q), rest |-> Tail(q)]

\* case <-c.ctx.Done(): return
WorkerReturn ==
    /\ Alive /\ WorkerAtSelect /\ wpc = "select"
    /\ ctxDone
    /\ wpc' = "returned"
    /\ UNCHANGED << WorkerFrame, requestChan, active, ctxAtCall, resultCh, errCh,
                    startLog, endLog >>

\* case req := <-c.requestChan, then the call of generateResponseSync begins
WorkerReceive ==
    /\ Alive /\ WorkerAtSelect
    /\ requestChan # <<>>
    /\ LET rcv == Receive(requestChan) IN
         /\ requestChan' = rcv.rest
         /\ active' = active \cup {rcv.req}
         /\ startLog' = Append(startLog, rcv.req)
    /\ ctxAtCall' = ctxDone
    /\ wpc' = "call"
    /\ UNCHANGED << WorkerFrame, resultCh, errCh, endLog >>

\* case req := <-c.requestChan on the closed, drained channel: the zero request
WorkerReceiveZero ==
    /\ Alive /\ WorkerAtSelect
    /\ requestChan = <<>> /\ chanClosed
    /\ active' = active \cup {ZeroReq}
    /\ startLog' = Append(startLog, ZeroReq)
    /\ ctxAtCall' = ctxDone
    /\ wpc' = "call"
    /\ UNCHANGED << WorkerFrame, requestChan, resultCh, errCh, endLog >>

\* how a call of generateResponseSync can end.  The nvidia client derives
\* the request context from c.ctx, the ollama client from
\* context.Background(): an nvidia call begun under a cancelled c.ctx has a
\* request context that is done from the start, and httpClient.Do returns
\* its error.  The context is read only inside Do and the reading of the
\* body: a call that began before the cancellation can be past them and end
\* as it would have.
ProviderOutcomes(v, doneAtStart) ==
    IF v = "nvidia" /\ doneAtStart THEN {"ProviderError"}
    ELSE {"Response", "ProviderError", "TimeoutError"}

\* the call under way can end with kind when variant v runs it: a failure is
\* the backend's, within the failures of the scenario, or, in the nvidia
\* client, the error Do returns once c.ctx is cancelled
MayEnd(v, kind) ==
    /\ kind \in ProviderOutcomes(v, ctxAtCall)
    /\ Len(endLog) < scenario.ends
    /\ \/ kind = "Response"
       \/ kind = "ProviderError" /\ v = "nvidia" /\ ctxDone
       \/ Count(Failed) < scenario.fails

\* a slip: what was received before the timeout is handed back as a result
OutcomeIsResult_partial(kind) == kind \in {"Response", "TimeoutError"}

\* if err != nil { req.errCh <- err } else { req.resultCh <- result }
OutcomeIsResult(kind) == kind = "Response"

\* a slip: the worker gives up after a provider error
AfterDeliver_stopOnError(kind) == IF kind = "Response" THEN "select" ELSE "returned"

\* after the send the loop goes round to its select, whatever the outcome
AfterDeliver(kind) == "select"

\* a slip: unbuffered result and error channels
SlotRoom_unbuffered(ch) == FALSE

\* the send on a request's channel can proceed: its buffer has room
SlotRoom(ch) == Len(ch) < SlotCap

\* generateResponseSync returns, the outcome is sent on the request's channel
WorkerDeliver(r, kind) ==
    /\ Alive /\ wpc = "call"
    /\ r \in active /\ r # ZeroReq
    /\ MayEnd(variant, kind)
    /\ active' = active \ {r}
    /\ endLog' = Append(endLog, [req |-> r, kind |-> kind])
    /\ IF OutcomeIsResult(kind)
         THEN /\ SlotRoom(resultCh[SlotOf(r)])
              /\ resultCh' = [resultCh EXCEPT ![SlotOf(r)] = Append(@, Ret(kind, r))]
              /\ errCh' = errCh
         ELSE /\ SlotRoom(errCh[SlotOf(r)])
              /\ errCh' = [errCh EXCEPT ![SlotOf(r)] = Append(@, Ret(kind, r))]
              /\ resultCh' = resultCh
    /\ wpc' = AfterDeliver(kind)
    /\ UNCHANGED << WorkerFrame, requestChan, ctxAtCall, startLog >>

\* generateResponseSync returns for the zero request: the send on its nil
\* channel blocks for ever
WorkerNilSend(kind) ==
    /\ Alive /\ wpc = "call"
    /\ ZeroReq \in active
    /\ MayEnd(variant, kind)
    /\ active' = active \ {ZeroReq}
    /\ endLog' = Append(endLog, [req |-> ZeroReq, kind |-> kind])
    /\ wpc' = "nilsend"
    /\ UNCHANGED << WorkerFrame, requestChan, ctxAtCall, resultCh, errCh, startLog >>

(* ---------------------------------------------------------------------- *)
(* Close                                                                   *)
(* ---------------------------------------------------------------------- *)
CloseFrame == << scenario, variant, calls, ctxFired, requestChan, wpc, active,
                 ctxAtCall, resultCh, errCh, enqLog, startLog, endLog, parked, otherVars >>

SetCloser(k, pc) == closers' = [closers EXCEPT ![k] = pc]

\* Close calls are numbered in the order in which they are made
NextClose(k) ==
    /\ k <= scenario.closers
    /\ closers[k] = "idle"
    /\ \A j \in Closers : j < k => closers[j] # "idle"

\* a slip: a plain call instead of closeOnce.Do
OnceMustRun_always == TRUE

\* sync.Once: f runs only while done is unset
OnceMustRun == ~onceDone

\* closeOnce.Do, fast path: done is set, return nil
CloseFast(k) ==
    /\ Alive /\ NextClose(k)
    /\ ~OnceMustRun
    /\ SetCloser(k, "returned")
    /\ UNCHANGED << CloseFrame, chanClosed, ctxDone, onceDone, onceLocked,
                    cancelCount, closeCount, panicked >>

\* closeOnce.Do, slow path, the mutex of the Once is free: f starts
CloseSlow(k) ==
    /\ Alive /\ NextClose(k)
    /\ OnceMustRun
    /\ ~onceLocked
    /\ SetCloser(k, "cancel")
    /\ onceLocked' = TRUE
    /\ UNCHANGED << CloseFrame, chanClosed, ctxDone, onceDone,
                    cancelCount, closeCount, panicked >>

\* closeOnce.Do, slow path, the mutex of the Once is held: wait for it
CloseWait(k) ==
    /\ Alive /\ NextClose(k)
    /\ OnceMustRun
    /\ onceLocked
    /\ SetCloser(k, "lock")
    /\ UNCHANGED << CloseFrame, chanClosed, ctxDone, onceDone, onceLocked,
                    cancelCount, closeCount, panicked >>

\* the mutex is taken; done is read again
OnceLock(k) ==
    /\ Alive /\ closers[k] = "lock"
    /\ ~onceLocked
    /\ IF OnceMustRun
         THEN SetCloser(k, "cancel") /\ onceLocked' = TRUE
         ELSE SetCloser(k, "returned") /\ onceLocked' = FALSE
    /\ UNCHANGED << CloseFrame, chanClosed, ctxDone, onceDone,
                    cancelCount, closeCount, panicked >>

\* c.cancel()
CloseCancel(k) ==
    /\ Alive /\ closers[k] = "cancel"
    /\ ctxDone' = TRUE
    /\ cancelCount' = cancelCount + 1
    /\ SetCloser(k, "closechan")
    /\ UNCHANGED << CloseFrame, chanClosed, onceDone, onceLocked, closeCount, panicked >>

\* close(c.requestChan); Do sets done and releases the mutex; return nil
CloseChan(k) ==
    /\ Alive /\ closers[k] = "closechan"
    /\ IF chanClosed
         THEN /\ panicked' = "close of closed channel"
              /\ UNCHANGED << chanClosed, closeCount, onceDone, onceLocked, closers >>
         ELSE /\ chanClosed' = TRUE
              /\ closeCount' = closeCount + 1
              /\ onceDone' = TRUE
              /\ onceLocked' = FALSE
              /\ SetCloser(k, "returned")
              /\ panicked' = panicked
    /\ UNCHANGED << CloseFrame, ctxDone, cancelCount >>

(* ---------------------------------------------------------------------- *)
Next ==
    \/ \E c \in CallIds, instr \in Instructions : CallEmpty(c, instr)
    \/ \E c \in CallIds, instr \in Instructions : CallEnqueue(c, instr)
    \/ \E c \in CallIds, instr \in Instructions : CallPanic(c, instr)
    \/ \E c \in CallIds, instr \in Instructions : CallCancelled(c, instr)
    \/ \E c \in CallIds, instr \in Instructions : CallPark(c, instr)
    \/ \E c \in CallIds : SendEnqueue(c)
    \/ \E c \in CallIds : SendPanic(c)
    \/ \E c \in CallIds : SendCancelled(c)
    \/ \E c \in CallIds : RecvResult(c)
    \/ \E c \in CallIds : RecvErr(c)
    \/ \E c \in CallIds : WaitCancelled(c)
    \/ \E c \in CallIds : CtxFire(c)
    \/ WorkerReturn
    \/ WorkerReceive
    \/ WorkerReceiveZero
    \/ \E r \in CallIds, kind \in ProviderOutcomes("ollama", FALSE) : WorkerDeliver(r, kind)
    \/ \E kind \in ProviderOutcomes("ollama", FALSE) : WorkerNilSend(kind)
    \/ \E k \in Closers : CloseFast(k)
    \/ \E k \in Closers : CloseSlow(k)
    \/ \E k \in Closers : CloseWait(k)
    \/ \E k \in Closers : OnceLock(k)
    \/ \E k \in Closers : CloseCancel(k)
    \/ \E k \in Closers : CloseChan(k)

Spec == Init /\ [][Next]_vars

\* the steps of one caller's goroutine once it is inside GenerateResponse
CallerStep(c) ==
    \/ SendEnqueue(c) \/ SendPanic(c) \/ SendCancelled(c)
    \/ RecvResult(c) \/ RecvErr(c) \/ WaitCancelled(c)

\* the steps of the worker goroutine
WorkerStep ==
    \/ WorkerReturn \/ WorkerReceive \/ WorkerReceiveZero
    \/ \E r \in CallIds, kind \in ProviderOutcomes("ollama", FALSE) : WorkerDeliver(r, kind)
    \/ \E kind \in ProviderOutcomes("ollama", FALSE) : WorkerNilSend(kind)

\* the steps of one closer's goroutine once it is inside closeOnce.Do
CloserStep(k) == OnceLock(k) \/ CloseCancel(k) \/ CloseChan(k)

\* what the scheduler of goroutines guarantees: a goroutine that can take a
\* step takes one; the callers' arrivals, their contexts and the calls of
\* Close are the environment's and carry no fairness
Fairness ==
    /\ WF_vars(WorkerStep)
    /\ \A c \in CallIds : WF_vars(CallerStep(c))
    /\ \A k \in Closers : WF_vars(CloserStep(k))

LiveSpec == Init /\ [][Next]_vars /\ Fairness

(* ---------------------------------------------------------------------- *)
(* Vocabulary of the properties                                            *)
(* ---------------------------------------------------------------------- *)
Range(q) == { q[i] : i \in 1..Len(q) }
EnqReqs == Range(enqLog)
StartedReqs == Range(startLog)
EndedReqs == { endLog[i].req : i \in 1..Len(endLog) }
InChan(c) == c \in Range(requestChan)
ProviderKinds == {"Response", "ProviderError", "TimeoutError"}

\* empty or whitespace-only, said without strings.TrimSpace
Blank(instr) == \A i \in 1..Len(instr) : IsSpace(instr[i])

\* Close has not taken effect yet
Open == ~ctxDone /\ ~chanClosed

\* the provider answers no further call within the scenario's horizon
Horizon == Len(endLog) >= scenario.ends

(* ---------------------------------------------------------------------- *)
(* C1                                                                      *)
(* ---------------------------------------------------------------------- *)
\* C1: at most one provider call (generateResponseSync) of a dispatcher is
\* in progress at any moment, and it is in progress only while the worker is
\* inside the call, not while it is back at its select.
C1_OneCallAtATime ==
    /\ Cardinality(active) <= 1
    /\ (active # {}) <=> (wpc = "call")

\* a provider call is in progress for the second request while a third one
\* waits in the channel
C1_Witness ==
    /\ Cardinality(active) = 1
    /\ Len(endLog) >= 1
    /\ requestChan # <<>>

(* ---------------------------------------------------------------------- *)
(* C2                                                                      *)
(* ---------------------------------------------------------------------- *)
\* C2: requests are serviced in the order of their enqueueing: when the
\* provider call of a request has started, the provider call of every
\* request enqueued before it has ended.
C2_SubmissionOrder ==
    \A i, j \in 1..Len(enqLog) :
        (i < j /\ enqLog[j] \in StartedReqs) => enqLog[i] \in EndedReqs

\* the call for the request enqueued second has started
C2_Witness ==
    /\ Len(enqLog) >= 3
    /\ enqLog[2] \in StartedReqs
    /\ enqLog[3] \notin StartedReqs

(* ---------------------------------------------------------------------- *)
(* C3                                                                      *)
(* ---------------------------------------------------------------------- *)
\* C3: on an open dispatcher the provider calls made are exactly those of
\* the enqueued requests not in the channel any more, each once and in
\* order; once the channel is drained and the worker is back at its select,
\* N enqueued requests have had exactly N provider calls.
C3_OneCallPerRequest ==
    Open =>
        /\ startLog \o requestChan = enqLog
        /\ \A i, j \in 1..Len(startLog) : i # j => startLog[i] # startLog[j]
        /\ [i \in 1..Len(endLog) |-> endLog[i].req] = SubSeq(startLog, 1, Len(endLog))
        /\ Len(startLog) = Len(endLog) + Cardinality(active)
        /\ \A c \in CallIds :
             (calls[c].pc = "wait" \/ calls[c].ret.kind \in ProviderKinds) => c \in EnqReqs
        /\ (requestChan = <<>> /\ wpc = "select") => Len(endLog) = Len(enqLog)

\* three requests were submitted and three provider calls have ended
C3_Witness ==
    /\ Open
    /\ Len(enqLog) = 3
    /\ requestChan = <<>> /\ wpc = "select"
    /\ Len(endLog) = 3

(* ---------------------------------------------------------------------- *)
(* C4                                                                      *)
(* ---------------------------------------------------------------------- *)
\* C4: a call of GenerateResponse whose instruction is empty or
\* whitespace-only returns the empty-input error in the step that makes it,
\* and that step leaves the channel, the worker, the provider calls and the
\* result slots unchanged.
C4_EmptyInputRejected ==
    [][ \A c \in CallIds :
          (calls[c].pc = "idle" /\ calls'[c].pc # "idle" /\ Blank(calls'[c].instr))
          => /\ calls'[c].pc = "done"
             /\ calls'[c].ret.kind = "EmptyInput"
             /\ UNCHANGED << requestChan, enqLog, startLog, endLog, active, wpc,
                             resultCh, errCh, chanClosed, ctxDone, panicked >> ]_vars

\* a whitespace-only instruction was rejected while a request was queued
C4_Witness ==
    \E c \in CallIds :
        /\ calls[c].ret.kind = "EmptyInput"
        /\ calls[c].instr = <<FF, NBSP>>
        /\ requestChan # <<>>
        /\ c \notin EnqReqs

(* ---------------------------------------------------------------------- *)
(* C5                                                                      *)
(* ---------------------------------------------------------------------- *)
\* C5: the channel never holds more than QueueCap requests; a call that
\* finds it full parks; a parked call leaves that state only by enqueueing
\* into a free slot or, its ctx fired, by returning Cancelled with its
\* request not enqueued; a call that returned without enqueueing is never
\* enqueued and never reaches the provider.
C5_BoundedQueue ==
    [][ /\ Len(requestChan') <= QueueCap
        /\ \A c \in CallIds :
             /\ calls[c].pc = "send" =>
                  \/ calls'[c].pc = "send"
                  \/ /\ calls'[c].pc = "wait"
                     /\ Len(requestChan) < QueueCap
                     /\ requestChan' = Append(requestChan, c)
                  \/ /\ calls'[c].pc = "done"
                     /\ c \in ctxFired
                     /\ calls'[c].ret.kind = "Cancelled"
                     /\ requestChan' = requestChan
                     /\ c \notin Range(enqLog')
             /\ (calls[c].pc = "idle" /\ calls'[c].pc = "wait") =>
                  Len(requestChan) < QueueCap
             /\ ( /\ calls[c].pc = "idle" /\ calls'[c].pc # "idle"
                  /\ ~Blank(calls'[c].instr)
                  /\ Len(requestChan) = QueueCap /\ ~chanClosed /\ c \notin ctxFired )
                => calls'[c].pc = "send"
             /\ (calls[c].pc = "done" /\ c \notin EnqReqs) =>
                  (c \notin Range(enqLog') /\ c \notin Range(startLog')) ]_vars

\* a call that parked on the full channel returned Cancelled, the channel is
\* still full and its request is not in it
C5_Witness ==
    \E c \in parked :
        /\ calls[c].ret.kind = "Cancelled"
        /\ c \notin EnqReqs
        /\ Len(requestChan) = QueueCap

(* ---------------------------------------------------------------------- *)
(* C6                                                                      *)
(* ---------------------------------------------------------------------- *)
\* C6 as stated: once a call whose request was enqueued has returned
\* Cancelled, its request occupies no slot of the channel.
C6_SlotFreedByCancel ==
    \A c \in CallIds :
        (calls[c].ret.kind = "Cancelled" /\ c \in EnqReqs) => ~InChan(c)

\* C6 as amended: the return on ctx.Done leaves the channel as it is; a
\* request leaves the channel only by the worker receiving it; a call that
\* returns while its request is still queued returns Cancelled; a waiting
\* call whose ctx fired returns (time and again no such call is left
\* waiting); and before Close the worker receives every queued request, the
\* cancelled ones included, which is what frees the slot (time and again the
\* channel is empty).
C6_SlotFreedByWorker ==
    /\ [][ \A c \in CallIds :
             /\ (calls[c].pc = "wait" /\ calls'[c].pc = "done" /\ InChan(c))
                => /\ calls'[c].ret.kind = "Cancelled"
                   /\ c \in ctxFired
                   /\ requestChan' = requestChan
             /\ (InChan(c) /\ c \notin Range(requestChan'))
                => /\ startLog' = Append(startLog, c)
                   /\ requestChan' = Tail(requestChan) ]_vars
    /\ []<>(ctxDone \/ \A c \in CallIds : ~(calls[c].pc = "wait" /\ c \in ctxFired))
    /\ []<>(ctxDone \/ Horizon \/ requestChan = <<>>)

\* a caller has returned Cancelled and its request is still in the channel,
\* behind it the request of a later caller
C6_Witness ==
    \E c, d \in CallIds :
        /\ calls[c].ret.kind = "Cancelled"
        /\ InChan(c) /\ InChan(d)
        /\ c < d

(* ---------------------------------------------------------------------- *)
(* C7                                                                      *)
(* ---------------------------------------------------------------------- *)
\* C7: what a call returns from the provider was produced by the provider
\* call made for its own request, and what lies in a request's result or
\* error channel was produced for that request.
C7_OwnResultOnly ==
    \A c \in CallIds :
        /\ calls[c].ret.kind \in ProviderKinds => calls[c].ret.src = c
        /\ \A i \in 1..Len(resultCh[c]) : resultCh[c][i].src = c
        /\ \A i \in 1..Len(errCh[c]) : errCh[c][i].src = c
        /\ Len(resultCh[c]) + Len(errCh[c]) <= 1

\* the result of a cancelled caller lies unread in its channel and a later
\* caller has returned a response
C7_Witness ==
    \E c, d \in CallIds :
        /\ c < d
        /\ calls[c].ret.kind = "Cancelled"
        /\ resultCh[c] # <<>>
        /\ calls[d].ret.kind = "Response"

(* ---------------------------------------------------------------------- *)
(* C8                                                                      *)
(* ---------------------------------------------------------------------- *)
\* C8: however many calls of Close are made, c.cancel() and
\* close(c.requestChan) each run at most once, no call panics on the closed
\* channel, and a call that has returned finds both done exactly once.
C8_CloseIdempotent ==
    /\ cancelCount <= 1
    /\ closeCount <= 1
    /\ panicked # "close of closed channel"
    /\ \A k \in Closers :
         closers[k] = "returned" =>
             /\ ctxDone /\ chanClosed
             /\ cancelCount = 1 /\ closeCount = 1

\* two calls of Close have returned
C8_Witness ==
    /\ closers[1] = "returned"
    /\ closers[2] = "returned"
    /\ closeCount = 1

(* ---------------------------------------------------------------------- *)
(* C9                                                                      *)
(* ---------------------------------------------------------------------- *)
\* C9: after Close every caller still waiting inside GenerateResponse
\* returns (or the process has ended), whether or not its own ctx fires.
C9_WaitersReturnAfterClose ==
    \A c \in CallIds :
        (chanClosed /\ calls[c].pc = "wait")
            ~> (calls[c].pc = "done" \/ ~Alive \/ Horizon)

(* ---------------------------------------------------------------------- *)
(* C10                                                                     *)
(* ---------------------------------------------------------------------- *)
\* C10: after Close the worker makes no provider call for a value read from
\* the closed channel and is never blocked sending the outcome of one.
C10_WorkerStopsAfterClose ==
    chanClosed => (ZeroReq \notin StartedReqs /\ wpc # "nilsend")

(* ---------------------------------------------------------------------- *)
(* C11                                                                     *)
(* ---------------------------------------------------------------------- *)
ReturnKinds == {"Response", "EmptyInput", "Cancelled", "ProviderError", "TimeoutError", "Closed"}

\* C11: no call of GenerateResponse ends the process, whatever Close does,
\* and a call that has ended has returned a response or an error of the
\* typed set; in particular a call that meets the closed channel returns.
C11_TypedReturnNoCrash ==
    /\ panicked # "send on closed channel"
    /\ \A c \in CallIds : calls[c].pc = "done" => calls[c].ret.kind \in ReturnKinds

(* ---------------------------------------------------------------------- *)
(* C12                                                                     *)
(* ---------------------------------------------------------------------- *)
\* the step ends the provider call of request r with an outcome of kind k
EndsCall(r, k) ==
    /\ Len(endLog') = Len(endLog) + 1
    /\ endLog'[Len(endLog')] = [req |-> r, kind |-> k]

\* C12: a provider call that ends in an error or a timeout leaves the worker
\* at its select, alive, with the error in that request's own error channel
\* and the queue as it was; and while the dispatcher is open the requests
\* queued behind a failed call are received by the worker.
C12_WorkerSurvivesProviderError ==
    /\ [][ \A r \in CallIds, k \in {"ProviderError", "TimeoutError"} :
             EndsCall(r, k) =>
                 /\ wpc' = "select"
                 /\ panicked' = "none"
                 /\ errCh'[r] = Append(errCh[r], Ret(k, r))
                 /\ requestChan' = requestChan ]_vars
    /\ (Failed # {} /\ requestChan # <<>>) ~> (requestChan = <<>> \/ ctxDone \/ Horizon)

\* on an open dispatcher a call failed, its caller got that error, and the
\* call of a request queued behind it has ended in a response
C12_Witness ==
    /\ Open
    /\ \E i, j \in 1..Len(endLog) :
         /\ i < j
         /\ endLog[i].kind \in {"ProviderError", "TimeoutError"}
         /\ calls[endLog[i].req].ret = Ret(endLog[i].kind, endLog[i].req)
         /\ endLog[j].kind = "Response"

(* ---------------------------------------------------------------------- *)
(* C13                                                                     *)
(* ---------------------------------------------------------------------- *)
\* C13: the firing of a caller's ctx and the caller's return on it leave the
\* provider call in progress and the worker as they are; a timeout goes to
\* the error channel of its request, never to the result channel, and the
\* worker is back at its select; and every provider call that started ends
\* (unless the process has ended).
C13_CallTimeoutIndependentOfCaller ==
    /\ [][ \A c \in CallIds :
             /\ ( \/ c \in ctxFired' \ ctxFired
                  \/ calls[c].ret.kind # "Cancelled" /\ calls'[c].ret.kind = "Cancelled" )
                => UNCHANGED << active, wpc, startLog, endLog, resultCh, errCh >>
             /\ EndsCall(c, "TimeoutError")
                => /\ errCh'[c] = Append(errCh[c], Ret("TimeoutError", c))
                   /\ resultCh' = resultCh
                   /\ wpc' = "select" ]_vars
    /\ (wpc = "call") ~> (wpc # "call" \/ ~Alive \/ Horizon)

\* the caller of a request returned Cancelled while its provider call was
\* in progress; the call then ran into its timeout, the timeout lies in the
\* request's error channel and the worker has gone on to the next request
C13_Witness ==
    \E c \in CallIds :
        /\ calls[c].ret.kind = "Cancelled"
        /\ errCh[c] = << Ret("TimeoutError", c) >>
        /\ \E i \in 1..Len(startLog) : i > 1 /\ startLog[i - 1] = c

(* ---------------------------------------------------------------------- *)
(* C14                                                                     *)
(* ---------------------------------------------------------------------- *)
\* outcomes of request r that exist: in its channels or returned to its caller
Outcomes(r) ==
    Len(resultCh[r]) + Len(errCh[r])
        + (IF calls[r].ret.kind \in ProviderKinds THEN 1 ELSE 0)

\* C14: for every request the worker has received from a caller, once its
\* provider call has ended exactly one outcome exists (in its result channel,
\* in its error channel, or returned to its caller) and none before; no
\* request's call ends twice; and while the call is in progress both channels
\* of the request have room, so the send cannot block.
C14_OneOutcomePerRequest ==
    \A r \in CallIds :
        /\ Outcomes(r) = (IF r \in EndedReqs THEN 1 ELSE 0)
        /\ Cardinality({ i \in 1..Len(endLog) : endLog[i].req = r }) <= 1
        /\ r \in active => (SlotRoom(resultCh[r]) /\ SlotRoom(errCh[r]))

\* the outcome of a request whose caller has left lies in its channel and
\* the worker is inside the call of the next request
C14_Witness ==
    \E c \in CallIds :
        /\ calls[c].ret.kind = "Cancelled"
        /\ Len(resultCh[c]) + Len(errCh[c]) = 1
        /\ wpc = "call" /\ c \notin active

(* ---------------------------------------------------------------------- *)
(* the whiteboard view: scenes and their comparison                        *)
(* ---------------------------------------------------------------------- *)
\* x, y, width and height are counted in units of 1/128, which binary
\* floating point holds exactly: one unit is less than 0.01, two are more
ElA == [id |-> "a", version |-> 1, isDeleted |-> FALSE,
        x |-> 0, y |-> 0, width |-> 256, height |-> 128]

ElB == [id |-> "b", version |-> 1, isDeleted |-> FALSE,
        x |-> 512, y |-> 0, width |-> 128, height |-> 128]

\* an element and what one edit makes of it
Edits(e) ==
    { e,
      [e EXCEPT !.version = @ + 1],
      [e EXCEPT !.isDeleted = TRUE],
      [e EXCEPT !.x = @ + 1], [e EXCEPT !.x = @ + 2], [e EXCEPT !.x = @ - 2],
      [e EXCEPT !.y = @ + 1], [e EXCEPT !.y = @ + 2],
      [e EXCEPT !.width = @ + 1], [e EXCEPT !.width = @ + 2],
      [e EXCEPT !.height = @ + 1], [e EXCEPT !.height = @ + 2] }

\* the scenes the editor hands to onChange: ids are unique within a scene
Scenes ==
    { << >>, << ElB >> }
        \cup { << a >> : a \in Edits(ElA) }
        \cup { << a, ElB >> : a \in Edits(ElA) }
        \cup { << ElB, a >> : a \in Edits(ElA) }

AppStates == { "view" }

Abs(n) == IF n < 0 THEN -n ELSE n

\* Math.abs(a - b) > 0.01, for a and b in units of 1/128
Exceeds(a, b) == Abs(a - b) * 100 > 128

IdsOf(s) == { s[i].id : i \in 1..Len(s) }

\* new Map(s.map((el) => [el.id, el])): the last element of an id wins
MapOf(s) ==
    [ id \in IdsOf(s) |->
        s[CHOOSE i \in 1..Len(s) :
            /\ s[i].id = id
            /\ \A j \in 1..Len(s) : s[j].id = id => j <= i] ]

PositionChanged(p, n) == Exceeds(p.x, n.x) \/ Exceeds(p.y, n.y)

\* a slip: the height is not compared
SizeChanged_widthOnly(p, n) == Exceeds(p.width, n.width)

SizeChanged(p, n) == Exceeds(p.width, n.width) \/ Exceeds(p.height, n.height)

\* the body of the loop: what sets hasChanges
ElementChanged(p, n) ==
    \/ p.version # n.version
    \/ p.isDeleted # n.isDeleted
    \/ PositionChanged(p, n)
    \/ SizeChanged(p, n)

\* a slip: the scenes are compared entry by entry, in sequence order
elementsHaveChanged_inOrder(prevElements, newElements) ==
    IF Len(prevElements) # Len(newElements) THEN TRUE
    ELSE \E i \in 1..Len(newElements) :
            \/ prevElements[i].id # newElements[i].id
            \/ ElementChanged(prevElements[i], newElements[i])

\* the comparison of two scenes: by count, then by id through two maps
elementsHaveChanged(prevElements, newElements) ==
    IF Len(prevElements) # Len(newElements) THEN TRUE
    ELSE LET prevMap == MapOf(prevElements)
             newMap == MapOf(newElements)
         IN IF Cardinality(DOMAIN prevMap) # Cardinality(DOMAIN newMap) THEN TRUE
            ELSE \E id \in DOMAIN newMap :
                    \/ id \notin DOMAIN prevMap
                    \/ ElementChanged(prevMap[id], newMap[id])

(* ---------------------------------------------------------------------- *)
(* the debounced notifier (useDebouncedCallback)                           *)
(* ---------------------------------------------------------------------- *)
\* const DEBOUNCE_DELAY = 1000
DEBOUNCE_DELAY == 1000

\* a slip: the first pending arguments are kept (leading edge)
StoreArgs_first(old, args) == IF old = << >> THEN << args >> ELSE old

\* pendingArgsRef.current = args
StoreArgs(old, args) == << args >>

\* a slip: the running timer is left alone
ClearExisting_keep(ts, h) == ts

\* if (timeoutRef.current) { clearTimeout(timeoutRef.current) }
ClearExisting(ts, h) == IF h # NoTimer THEN { t \in ts : t.id # h } ELSE ts

\* a slip: no cleanup on unmount
Cleanup_none(ts, h) == ts

\* the cleanup of the unmount effect
Cleanup(ts, h) == IF h # NoTimer THEN { t \in ts : t.id # h } ELSE ts

\* debouncedCallback(...args)
DebouncedCallback(args) ==
    /\ pendingArgsRef' = StoreArgs(pendingArgsRef, args)
    /\ timerSeq' = timerSeq + 1
    /\ timers' = ClearExisting(timers, timeoutRef)
                    \cup { [id |-> timerSeq + 1, due |-> now + DEBOUNCE_DELAY] }
    /\ timeoutRef' = timerSeq + 1
    /\ callLog' = Append(callLog, [args |-> args, at |-> now, mounted |-> mounted,
                                    cb |-> callbackRef])

\* bounds of the notifier's driver
HookCalls == 3

Renders == 2

Tick == 500

MaxTime == 3000

\* what the driver passes to the notifier: (updatedElements, appState)
HookArgs == { << sc, a >> : sc \in { << >>, << ElA >> }, a \in AppStates }

\* a call of the debounced notifier, mounted or not: the returned function
\* is a plain closure
NotifyStateChange(args) ==
    /\ Len(callLog) < HookCalls
    /\ now + DEBOUNCE_DELAY <= MaxTime
    /\ DebouncedCallback(args)
    /\ UNCHANGED << dispVars, promptVars, laterVars, now, mounted, callbackRef, previousElementsRef, changeLog,
                    elements, delivered >>

\* a slip: the timer body calls the callback of the render that made the call
InvokedCallback_captured(atCall, atFire) == atCall

\* callbackRef.current(...pendingArgsRef.current): the callback stored last
InvokedCallback(atCall, atFire) == atFire

\* the event loop runs a timer that is due: the function given to setTimeout
TimerFire(t) ==
    /\ t \in timers
    /\ now >= t.due
    /\ timers' = timers \ {t}
    /\ IF pendingArgsRef # << >>
         THEN /\ delivered' = Append(delivered,
                                [args |-> pendingArgsRef[1], at |-> now,
                                 cb |-> InvokedCallback(callLog[Len(callLog)].cb,
                                                        callbackRef),
                                 calls |-> Len(callLog),
                                 mounted |-> mounted])
              /\ pendingArgsRef' = << >>
         ELSE UNCHANGED << delivered, pendingArgsRef >>
    /\ UNCHANGED << dispVars, promptVars, laterVars, now, mounted, timeoutRef, callbackRef, timerSeq,
                    previousElementsRef, changeLog, elements, callLog >>

\* a render passes a new callback; the effect stores it in callbackRef
Rerender ==
    /\ mounted
    /\ callbackRef < Renders
    /\ callbackRef' = callbackRef + 1
    /\ UNCHANGED << dispVars, promptVars, laterVars, now, mounted, timeoutRef, pendingArgsRef, timers,
                    timerSeq, previousElementsRef, changeLog, elements, callLog, delivered >>

\* the component unmounts: the cleanup of the effect runs
Unmount ==
    /\ mounted
    /\ mounted' = FALSE
    /\ timers' = Cleanup(timers, timeoutRef)
    /\ UNCHANGED << dispVars, promptVars, laterVars, now, timeoutRef, pendingArgsRef, callbackRef,
                    timerSeq, previousElementsRef, changeLog, elements, callLog, delivered >>

\* time passes
ClockTick ==
    /\ now < MaxTime
    /\ now' = now + Tick
    /\ UNCHANGED << dispVars, promptVars, laterVars, mounted, timeoutRef, pendingArgsRef, callbackRef,
                    timers, timerSeq, previousElementsRef, changeLog, elements, callLog,
                    delivered >>

\* the view alone: the dispatcher stays as constructed
FrontOnly == Init /\ scenario.name = "serve" /\ variant = "ollama"

HookNext ==
    \/ \E args \in HookArgs : NotifyStateChange(args)
    \/ \E t \in timers : TimerFire(t)
    \/ Rerender
    \/ Unmount
    \/ ClockTick

HookSpec == FrontOnly /\ [][HookNext]_vars

\* the event loop runs the timers that are due, and time passes
HookFairness ==
    /\ WF_vars(\E t \in timers : TimerFire(t))
    /\ WF_vars(ClockTick)

HookLiveSpec == FrontOnly /\ [][HookNext]_vars /\ HookFairness

(* ---------------------------------------------------------------------- *)
(* handleChange                                                            *)
(* ---------------------------------------------------------------------- *)
SceneChanges == 2

\* a slip: the baseline moves only when the change was found
Baseline_whenChanged(prev, updatedElements) ==
    IF elementsHaveChanged(prev, updatedElements)
    THEN [ i \in 1..Len(updatedElements) |-> updatedElements[i] ]
    ELSE prev

\* previousElementsRef.current = updatedElements.map((el) => ({ ...el }))
Baseline(prev, updatedElements) ==
    [ i \in 1..Len(updatedElements) |-> updatedElements[i] ]

\* handleChange, the editor's onChange: compare, keep the scene and a copy
\* of it, and notify when the comparison found a change
HandleChange(updatedElements, appState) ==
    /\ elements' = updatedElements
    /\ previousElementsRef' = Baseline(previousElementsRef, updatedElements)
    /\ IF elementsHaveChanged(previousElementsRef, updatedElements)
         THEN DebouncedCallback(<< updatedElements, appState >>)
         ELSE UNCHANGED << pendingArgsRef, timerSeq, timers, timeoutRef, callLog >>
    /\ changeLog' = Append(changeLog, [prev |-> previousElementsRef,
                                       next |-> updatedElements,
                                       calls |-> Len(callLog')])
    /\ UNCHANGED << now, mounted, callbackRef, delivered >>

\* an edit made in the editor: onChange with the scene after it
SceneNext ==
    /\ Len(changeLog) < SceneChanges
    /\ \E sc \in Scenes, a \in AppStates : HandleChange(sc, a)
    /\ UNCHANGED << dispVars, promptVars, laterVars >>

SceneSpec == FrontOnly /\ [][SceneNext]_vars

(* ---------------------------------------------------------------------- *)
(* C15                                                                     *)
(* ---------------------------------------------------------------------- *)
\* call j of the notifier was followed by another within the quiet window
Superseded(j) ==
    /\ j < Len(callLog)
    /\ callLog[j + 1].at - callLog[j].at < DEBOUNCE_DELAY

\* C15: every invocation of the downstream callback carries the arguments
\* of the latest call of the notifier made before it; no two invocations
\* belong to the same call, and a call followed by another within the quiet
\* window is never delivered, so a burst of N calls yields at most one
\* invocation, that of call N; and while the owner stays mounted pending
\* arguments are delivered, so the burst yields one.
C15_BurstDeliversLastOnce ==
    /\ [] ( \A i \in 1..Len(delivered) :
              LET d == delivered[i]
              IN /\ d.calls \in 1..Len(callLog)
                 /\ d.args = callLog[d.calls].args
                 /\ ~Superseded(d.calls)
                 /\ \A j \in 1..(i - 1) : delivered[j].calls < d.calls )
    /\ (mounted /\ pendingArgsRef # << >>) ~> (pendingArgsRef = << >> \/ ~mounted)

\* a burst of HookCalls calls, each within the quiet window of the one
\* before and with other arguments, then quiet: one invocation, of the last
C15_Witness ==
    /\ mounted
    /\ Len(callLog) = HookCalls
    /\ \A j \in 1..(Len(callLog) - 1) :
          Superseded(j) /\ callLog[j].args # callLog[j + 1].args
    /\ Len(delivered) = 1
    /\ delivered[1].calls = Len(callLog)
    /\ now >= delivered[1].at + DEBOUNCE_DELAY
    /\ timers = {}

(* ---------------------------------------------------------------------- *)
(* C16                                                                     *)
(* ---------------------------------------------------------------------- *)
\* C16: an invocation of the downstream callback happens no earlier than
\* DEBOUNCE_DELAY after the latest call of the notifier before it; at most
\* one timer runs, it is the one of the latest call and it is due
\* DEBOUNCE_DELAY after that call.
C16_QuietPeriodBeforeDelivery ==
    /\ \A i \in 1..Len(delivered) :
          delivered[i].at >= callLog[delivered[i].calls].at + DEBOUNCE_DELAY
    /\ Cardinality(timers) <= 1
    /\ \A t \in timers :
          /\ t.id = timeoutRef
          /\ callLog # << >>
          /\ t.due = callLog[Len(callLog)].at + DEBOUNCE_DELAY

\* the timer of the first call would have been due, was discarded by the
\* second call, and nothing was delivered until the second call's was due
C16_Witness ==
    /\ Len(callLog) >= 2
    /\ Superseded(1)
    /\ Len(delivered) = 1
    /\ delivered[1].calls = 2
    /\ delivered[1].at > callLog[1].at + DEBOUNCE_DELAY

(* ---------------------------------------------------------------------- *)
(* C17                                                                     *)
(* ---------------------------------------------------------------------- *)
\* C17: once the owner has unmounted, no timer of a call made before the
\* unmount is left, and an invocation of the downstream callback after the
\* unmount is never that of a call made while mounted.
C17_UnmountDiscardsTimer ==
    /\ (~mounted /\ \A j \in 1..Len(callLog) : callLog[j].mounted) => timers = {}
    /\ \A i \in 1..Len(delivered) :
          ~delivered[i].mounted => ~callLog[delivered[i].calls].mounted

\* unmounted with arguments pending; the time their timer was due has
\* passed and nothing was delivered
C17_Witness ==
    /\ ~mounted
    /\ callLog # << >>
    /\ \A j \in 1..Len(callLog) : callLog[j].mounted
    /\ pendingArgsRef # << >>
    /\ now > callLog[Len(callLog)].at + DEBOUNCE_DELAY
    /\ \A i \in 1..Len(delivered) : delivered[i].calls < Len(callLog)

(* ---------------------------------------------------------------------- *)
(* C18                                                                     *)
(* ---------------------------------------------------------------------- *)
\* the change as the claim words it, on the two scenes as they are
Differs(p, n) ==
    \/ Len(p) # Len(n)
    \/ \E i \in 1..Len(p) : \A j \in 1..Len(n) : p[i].id # n[j].id
    \/ \E j \in 1..Len(n) : \A i \in 1..Len(p) : p[i].id # n[j].id
    \/ \E i \in 1..Len(p), j \in 1..Len(n) :
          /\ p[i].id = n[j].id
          /\ \/ p[i].version # n[j].version
             \/ p[i].isDeleted # n[j].isDeleted
             \/ 100 * Abs(p[i].x - n[j].x) > 128
             \/ 100 * Abs(p[i].y - n[j].y) > 128
             \/ 100 * Abs(p[i].width - n[j].width) > 128
             \/ 100 * Abs(p[i].height - n[j].height) > 128

\* notifier calls made up to and including call i of handleChange
CallsAfter(i) == IF i = 0 THEN 0 ELSE changeLog[i].calls

\* C18: a call of handleChange calls the notifier, once and with the new
\* scene, if the new scene differs from the previously seen one in count,
\* in ids, or for a shared id in version, isDeleted, or by more than 0.01 in
\* x, y, width or height; otherwise it does not call the notifier; either
\* way the new scene becomes the previously seen one.
C18_ForwardIffChanged ==
    \A i \in 1..Len(changeLog) :
        LET e == changeLog[i]
        IN /\ e.prev = (IF i = 1 THEN << >> ELSE changeLog[i - 1].next)
           /\ IF Differs(e.prev, e.next)
                THEN /\ e.calls = CallsAfter(i - 1) + 1
                     /\ callLog[e.calls].args[1] = e.next
                ELSE e.calls = CallsAfter(i - 1)

\* a scene of two elements was forwarded; the next, which has them in the
\* other order and one of them moved by less than 0.01, was suppressed and
\* became the previously seen scene
C18_Witness ==
    /\ Len(changeLog) = 2
    /\ changeLog[1].next = << ElA, ElB >>
    /\ changeLog[1].calls = 1
    /\ changeLog[2].next = << ElB, [ElA EXCEPT !.x = @ + 1] >>
    /\ changeLog[2].calls = 1
    /\ pendingArgsRef = << << changeLog[1].next, "view" >> >>
    /\ previousElementsRef = changeLog[2].next

(* ---------------------------------------------------------------------- *)
(* the prompts of a request                                                *)
(* ---------------------------------------------------------------------- *)
\* texts are sequences of characters; a fixed text of the prompts package
\* is one item of the sequence

\* const WhiteboardSystemPrompt = `You convert speech instructions ...`
WhiteboardSystemPrompt == << "WhiteboardSystemPrompt" >>

\* BuildWhiteboardPrompt: the two sections and the closing line; the preamble
\* is not part of the text it returns
BuildWhiteboardPrompt(userInstruction, currentBoardState) ==
    << "## CURRENT BOARD STATE", NL >> \o currentBoardState
        \o << NL, NL, "## USER INSTRUCTION", NL >> \o userInstruction
        \o << NL, NL, "## YOUR RESPONSE (JSON ONLY, NO OTHER TEXT):" >>

\* the characters board states are made of in the model
JsonChars == { "[", "]", "{", "}", ",", "1", SP, "x" }

MaxBoardLen == 4

RECURSIVE TextsOfLen(_)
TextsOfLen(n) ==
    IF n = 0 THEN { << >> }
    ELSE { Append(t, ch) : t \in TextsOfLen(n - 1), ch \in JsonChars }

BoardStates == UNION { TextsOfLen(n) : n \in 0..MaxBoardLen }

\* the scanner of encoding/json, on the characters of the model
ScanError == [st |-> "error", stack |-> << >>]

Pop(stack) == SubSeq(stack, 1, Len(stack) - 1)

\* stateEndValue and stateEndTop: after a value
StateEndValue(stack, ch) ==
    IF ch = SP THEN [st |-> "endValue", stack |-> stack]
    ELSE IF stack = << >> THEN ScanError
    ELSE IF stack[Len(stack)] = "[" /\ ch = ","
           THEN [st |-> "beginValue", stack |-> stack]
    ELSE IF stack[Len(stack)] = "[" /\ ch = "]"
           THEN [st |-> "endValue", stack |-> Pop(stack)]
    ELSE IF stack[Len(stack)] = "{" /\ ch = "}"
           THEN [st |-> "endValue", stack |-> Pop(stack)]
    ELSE ScanError

\* stateBeginValue
StateBeginValue(st, stack, ch) ==
    IF ch = SP THEN [st |-> st, stack |-> stack]
    ELSE IF ch = "[" THEN [st |-> "beginValueOrEmpty", stack |-> Append(stack, "[")]
    ELSE IF ch = "{" THEN [st |-> "beginStringOrEmpty", stack |-> Append(stack, "{")]
    ELSE IF ch = "1" THEN [st |-> "digits", stack |-> stack]
    ELSE ScanError

\* one character through the scanner
ScanStep(st, stack, ch) ==
    CASE st = "beginValue" -> StateBeginValue(st, stack, ch)
      [] st = "beginValueOrEmpty" ->
            IF ch = "]" THEN StateEndValue(stack, ch)
            ELSE StateBeginValue(st, stack, ch)
      [] st = "beginStringOrEmpty" ->
            IF ch = SP THEN [st |-> st, stack |-> stack]
            ELSE IF ch = "}" THEN StateEndValue(stack, ch)
            ELSE ScanError
      [] st = "digits" ->
            IF ch = "1" THEN [st |-> st, stack |-> stack]
            ELSE StateEndValue(stack, ch)
      [] st = "endValue" -> StateEndValue(stack, ch)
      [] OTHER -> ScanError

RECURSIVE ScanFrom(_, _, _, _)
ScanFrom(text, i, st, stack) ==
    IF st = "error" THEN FALSE
    ELSE IF i > Len(text) THEN st \in { "endValue", "digits" } /\ stack = << >>
    ELSE LET n == ScanStep(st, stack, text[i])
         IN ScanFrom(text, i + 1, n.st, n.stack)

\* json.Unmarshal([]byte(boardState), &js) returns no error
UnmarshalOk(text) == ScanFrom(text, 1, "beginValue", << >>)

\* a slip: only the empty board state is replaced
BoardStateJSON_unchecked(boardState) ==
    IF boardState = << >> THEN << "[", "]" >> ELSE boardState

\* boardStateJSON: "[]" for an empty or an invalid board state
BoardStateJSON(boardState) ==
    IF boardState = << >> THEN << "[", "]" >>
    ELSE IF ~UnmarshalOk(boardState) THEN << "[", "]" >>
    ELSE boardState

\* what the provider is sent: the system prompt, when there is one, ahead of
\* the prompt (System and Prompt of Ollama's request; the messages of roles
\* system and user of NVIDIA's)
ProviderMessages(prompt, system) ==
    (IF system # << >> THEN << [role |-> "system", content |-> system] >> ELSE << >>)
        \o << [role |-> "user", content |-> prompt] >>

\* GenerateResponse up to the making of the llmRequest
PrepareRequest(prompt, boardState) ==
    /\ pStage = "idle"
    /\ pPrompt' = prompt
    /\ pBoard' = boardState
    /\ IF IsEmptyInput(prompt)
         THEN /\ pStage' = "rejected"
              /\ UNCHANGED << userPrompt, systemPrompt >>
         ELSE /\ pStage' = "built"
              /\ userPrompt' = BuildWhiteboardPrompt(prompt, BoardStateJSON(boardState))
              /\ systemPrompt' = WhiteboardSystemPrompt
    /\ UNCHANGED << dispVars, frontVars, laterVars, providerReq >>

\* generateResponseSync(req.prompt, req.systemPrompt) makes the request
SendToProvider ==
    /\ pStage = "built"
    /\ pStage' = "sent"
    /\ providerReq' = ProviderMessages(userPrompt, systemPrompt)
    /\ UNCHANGED << dispVars, frontVars, laterVars, pPrompt, pBoard, userPrompt, systemPrompt >>

PromptNext ==
    \/ /\ pStage = "idle"
       /\ \E prompt \in Instructions, boardState \in BoardStates :
             PrepareRequest(prompt, boardState)
    \/ SendToProvider

PromptSpec == FrontOnly /\ [][PromptNext]_vars

(* ---------------------------------------------------------------------- *)
(* C19                                                                     *)
(* ---------------------------------------------------------------------- *)
Spaces(n) == [ i \in 1..n |-> SP ]

Ones(n) == [ i \in 1..n |-> "1" ]

\* the grammar of JSON on the characters of the model: a text is a value
\* within white space; a value is a number, an empty object, or an array of
\* texts separated by commas
RECURSIVE IsJsonText(_), IsJsonValue(_), IsJsonItems(_)
IsJsonText(t) ==
    \E a \in 1..Len(t) : \E b \in a..Len(t) :
        /\ SubSeq(t, 1, a - 1) = Spaces(a - 1)
        /\ SubSeq(t, b + 1, Len(t)) = Spaces(Len(t) - b)
        /\ IsJsonValue(SubSeq(t, a, b))

IsJsonValue(v) ==
    LET inner == SubSeq(v, 2, Len(v) - 1)
    IN \/ Len(v) >= 1 /\ v = Ones(Len(v))
       \/ /\ Len(v) >= 2
          /\ v[1] = "{" /\ v[Len(v)] = "}"
          /\ inner = Spaces(Len(inner))
       \/ /\ Len(v) >= 2
          /\ v[1] = "[" /\ v[Len(v)] = "]"
          /\ (inner = Spaces(Len(inner)) \/ IsJsonItems(inner))

IsJsonItems(x) ==
    \/ IsJsonText(x)
    \/ \E k \in 2..(Len(x) - 1) :
          /\ x[k] = ","
          /\ IsJsonText(SubSeq(x, 1, k - 1))
          /\ IsJsonItems(SubSeq(x, k + 1, Len(x)))

\* the part of a built prompt between the board section and the
\* instruction section
EmbeddedBoard(text) ==
    LET k == CHOOSE i \in 1..Len(text) : text[i] = "## USER INSTRUCTION"
    IN SubSeq(text, 3, k - 3)

\* C19: the board state in the prompt sent to the provider is [] when the
\* boardState argument is empty or is not a JSON text, and is the argument
\* itself otherwise; what is embedded is always a JSON text.
C19_BoardStateNormalized ==
    pStage = "sent" =>
        LET user == providerReq[Len(providerReq)].content
        IN /\ EmbeddedBoard(user)
                 = (IF IsJsonText(pBoard) THEN pBoard ELSE << "[", "]" >>)
           /\ IsJsonText(EmbeddedBoard(user))

\* a board state with an unclosed array was sent as []
C19_Witness ==
    /\ pStage = "sent"
    /\ pBoard = << "[", "1", ",", "]" >>
    /\ EmbeddedBoard(providerReq[2].content) = << "[", "]" >>

(* ---------------------------------------------------------------------- *)
(* C20                                                                     *)
(* ---------------------------------------------------------------------- *)
\* what the claim lists after the preamble, in its order, around a board
\* and an instruction
SectionsOf(board, instruction) ==
    << "## CURRENT BOARD STATE", NL >> \o board
        \o << NL, NL, "## USER INSTRUCTION", NL >> \o instruction
        \o << NL, NL, "## YOUR RESPONSE (JSON ONLY, NO OTHER TEXT):" >>

\* C20: the text the prompt builder produced is the preamble followed by
\* the board section, the scene JSON, the instruction section, the raw
\* instruction and the closing instruction.  The builder fails it: its text
\* begins with the board section, and the preamble travels apart from it as
\* the system prompt of the request.
C20_PreambleInBuiltText ==
    pStage \in { "built", "sent" } =>
        userPrompt = WhiteboardSystemPrompt
                        \o SectionsOf(BoardStateJSON(pBoard), pPrompt)

(* ---------------------------------------------------------------------- *)
(* construction of the clients                                             *)
(* ---------------------------------------------------------------------- *)
\* what a constructor returns: the client (or nil), the error (or none) and
\* whether it started a worker
Made(client, err, worker) == [client |-> client, err |-> err, worker |-> worker]

\* NewOllamaLLMClient(ollamaHost, model); envOk: api.ClientFromEnvironment
\* returned no error
NewOllamaLLMClient(ollamaHost, model, envOk) ==
    IF ~envOk THEN Made("nil", "failed to create Ollama client", FALSE)
    ELSE Made("ollama", "none", TRUE)

NewNvidiaLLMClient(baseURL, model, apiKey) ==
    IF TrimSpace(apiKey) = << >> THEN Made("nil", "nvidia api key is required", FALSE)
    ELSE IF TrimSpace(model) = << >> THEN Made("nil", "nvidia model is required", FALSE)
    ELSE Made("nvidia", "none", TRUE)

\* a slip: an unknown provider name falls back to the local model
SelectVariant_defaultOllama(provider) ==
    IF provider = "nvidia" THEN "nvidia" ELSE "ollama"

\* switch LLMProvider(cfg.Provider)
SelectVariant(provider) ==
    IF provider = "ollama" THEN "ollama"
    ELSE IF provider = "nvidia" THEN "nvidia"
    ELSE "default"

\* a *NvidiaLLMClient returned as an LLMClient: a nil pointer becomes an
\* interface value that is not nil
AsInterface(made) ==
    IF made.client = "nil" THEN [made EXCEPT !.client = "typed-nil"] ELSE made

\* NewLLMClient(cfg); cfg is << >> (nil) or << the configuration >>
NewLLMClient(cfg, envOk) ==
    IF cfg = << >> THEN Made("nil", "llm config is required", FALSE)
    ELSE LET c == cfg[1]
         IN CASE SelectVariant(c.Provider) = "ollama" ->
                    AsInterface(NewOllamaLLMClient(c.Host, c.Model, envOk))
              [] SelectVariant(c.Provider) = "nvidia" ->
                    AsInterface(NewNvidiaLLMClient(c.Host, c.Model, c.APIKey))
              [] OTHER -> Made("nil", "unknown LLM provider", FALSE)

\* the configurations of the model
ProviderNames == { "ollama", "nvidia", "gemini", "Ollama", "" }

Hosts == { << >>, << "h" >> }

Models == { << >>, << VT >>, << "m" >> }

ApiKeys == { << >>, << NEL >>, << "k" >> }

Configs == [Provider : ProviderNames, Host : Hosts, Model : Models, APIKey : ApiKeys]

\* the record of a construction
Built(via, provider, host, model, apiKey, made) ==
    [via |-> via, provider |-> provider, host |-> host, model |-> model,
     apiKey |-> apiKey, client |-> made.client, err |-> made.err]

Started(made) == IF made.worker THEN 1 ELSE 0

ConstructOllama(host, model, envOk) ==
    /\ built = NotBuilt
    /\ LET made == NewOllamaLLMClient(host, model, envOk)
       IN /\ built' = Built("NewOllamaLLMClient", "ollama", host, model, << >>, made)
          /\ workers' = workers + Started(made)
    /\ UNCHANGED << dispVars, frontVars, promptVars, provCall, streamVars, mergeVars >>

ConstructNvidia(host, model, apiKey) ==
    /\ built = NotBuilt
    /\ LET made == NewNvidiaLLMClient(host, model, apiKey)
       IN /\ built' = Built("NewNvidiaLLMClient", "nvidia", host, model, apiKey, made)
          /\ workers' = workers + Started(made)
    /\ UNCHANGED << dispVars, frontVars, promptVars, provCall, streamVars, mergeVars >>

ConstructNil(envOk) ==
    /\ built = NotBuilt
    /\ LET made == NewLLMClient(<< >>, envOk)
       IN /\ built' = Built("NewLLMClient(nil)", "", << >>, << >>, << >>, made)
          /\ workers' = workers + Started(made)
    /\ UNCHANGED << dispVars, frontVars, promptVars, provCall, streamVars, mergeVars >>

ConstructByConfig(c, envOk) ==
    /\ built = NotBuilt
    /\ LET made == NewLLMClient(<< c >>, envOk)
       IN /\ built' = Built("NewLLMClient", c.Provider, c.Host, c.Model, c.APIKey, made)
          /\ workers' = workers + Started(made)
    /\ UNCHANGED << dispVars, frontVars, promptVars, provCall, streamVars, mergeVars >>

(* ---------------------------------------------------------------------- *)
(* one call of the provider                                                *)
(* ---------------------------------------------------------------------- *)
\* what comes back from the backend: how the transport ended, the status,
\* and the texts of the payload (the choices' contents for NVIDIA, the
\* chunks of the stream for Ollama)
Transports == { "ok", "fail", "timeout" }

Statuses == { 200, 299, 500 }

Payloads == { << >>, << << >> >>, << << FF >> >>, << << SP, "a" >> >>,
              << << "a" >>, << NBSP >> >> }

Replies == [transport : Transports, status : Statuses, parts : Payloads]

RECURSIVE Concat(_)
Concat(parts) == IF parts = << >> THEN << >> ELSE Head(parts) \o Concat(Tail(parts))

Outcome(kind, text) == [kind |-> kind, text |-> text]

\* OllamaLLMClient.generateResponseSync: Generate returns an error on a
\* failed transport and on a status of 400 and more; the chunks are joined
OllamaSync(reply) ==
    IF reply.transport = "timeout" THEN Outcome("TimeoutError", << >>)
    ELSE IF reply.transport = "fail" \/ reply.status >= 400
           THEN Outcome("ProviderError", << >>)
    ELSE Outcome("Response", TrimSpace(Concat(reply.parts)))

\* NvidiaLLMClient.generateResponseSync
NvidiaSync(reply) ==
    IF reply.transport = "timeout" THEN Outcome("TimeoutError", << >>)
    ELSE IF reply.transport = "fail" THEN Outcome("ProviderError", << >>)
    ELSE IF reply.status < 200 \/ reply.status >= 300
           THEN Outcome("ProviderError", << >>)
    ELSE IF Len(reply.parts) = 0 \/ reply.parts[1] = << >>
           THEN Outcome("ProviderError", << >>)
    ELSE Outcome("Response", TrimSpace(reply.parts[1]))

\* the worker calls generateResponseSync and GenerateResponse returns what
\* it returned
ProviderCall(reply) ==
    /\ built.client \in { "ollama", "nvidia" }
    /\ provCall = NoCall
    /\ LET out == IF built.client = "ollama" THEN OllamaSync(reply) ELSE NvidiaSync(reply)
       IN provCall' = [client |-> built.client, reply |-> << reply >>,
                       kind |-> out.kind, text |-> out.text]
    /\ UNCHANGED << dispVars, frontVars, promptVars, built, workers,
                    streamVars, mergeVars >>

ClientNext ==
    \/ /\ built = NotBuilt
       /\ \/ \E h \in Hosts, m \in Models, e \in BOOLEAN : ConstructOllama(h, m, e)
          \/ \E h \in Hosts, m \in Models, k \in ApiKeys : ConstructNvidia(h, m, k)
          \/ \E e \in BOOLEAN : ConstructNil(e)
          \/ \E c \in Configs, e \in BOOLEAN : ConstructByConfig(c, e)
    \/ /\ provCall = NoCall
       /\ \E reply \in Replies : ProviderCall(reply)

ClientSpec == FrontOnly /\ [][ClientNext]_vars

(* ---------------------------------------------------------------------- *)
(* C21                                                                     *)
(* ---------------------------------------------------------------------- *)
\* C21: a constructor of either variant called with an empty or
\* white-space-only model name, or the hosted-API one called with an empty
\* credential, returns an error and no client and starts no worker.
C21_FailFastOnMissingConfig ==
    ( /\ built.via \in { "NewOllamaLLMClient", "NewNvidiaLLMClient" }
      /\ \/ TrimSpace(built.model) = << >>
         \/ built.via = "NewNvidiaLLMClient" /\ built.apiKey = << >> )
    => (built.err # "none" /\ built.client = "nil" /\ workers = 0)

(* ---------------------------------------------------------------------- *)
(* C22                                                                     *)
(* ---------------------------------------------------------------------- *)
\* C22: for both variants a provider call ends in an error when the
\* transport fails, when the status is not a success, and when the
\* completion payload is missing or empty; so no call returns a response
\* whose text is empty.
C22_NoEmptyResponse ==
    provCall # NoCall =>
        LET reply == provCall.reply[1]
        IN /\ reply.transport # "ok" => provCall.kind # "Response"
           /\ reply.status >= 300 => provCall.kind # "Response"
           /\ Concat(reply.parts) = << >> => provCall.kind # "Response"
           /\ provCall.kind = "Response" => provCall.text # << >>

(* ---------------------------------------------------------------------- *)
(* C23                                                                     *)
(* ---------------------------------------------------------------------- *)
\* C23: NewLLMClient returns the local-model client only for the provider
\* name ollama and the hosted-API client only for nvidia, with one worker
\* started; for a nil configuration and for any other name it returns an
\* error and nil, and no worker is started.
C23_OneVariantByName ==
    /\ built.via = "NewLLMClient" =>
          /\ built.client = "ollama" => built.provider = "ollama"
          /\ built.client = "nvidia" => built.provider = "nvidia"
          /\ built.client = "typed-nil" =>
                (built.provider \in { "ollama", "nvidia" } /\ built.err # "none")
          /\ built.provider \notin { "ollama", "nvidia" } =>
                (built.client = "nil" /\ built.err # "none" /\ workers = 0)
          /\ built.err = "none" <=> built.client \in { "ollama", "nvidia" }
          /\ workers = (IF built.err = "none" THEN 1 ELSE 0)
    /\ built.via = "NewLLMClient(nil)" =>
          (built.client = "nil" /\ built.err # "none" /\ workers = 0)

\* a configuration naming a provider in other letters was refused
C23_Witness ==
    /\ built.via = "NewLLMClient"
    /\ built.provider = "Ollama"
    /\ built.model = << "m" >>
    /\ built.err = "unknown LLM provider"
    /\ built.client = "nil"

(* ====================================================================== *)
(* The text stream handler of topic "board" (board-room controls)          *)
(* ====================================================================== *)
\* A JSON text is a sequence of tokens; white space between tokens carries
\* no meaning in JSON and is left out.  String tokens are written with
\* their quotes.
StrToks == { "\"action\"", "\"add\"", "\"update\"", "\"delete\"", "\"error\"",
             "\"frob\"", "\"elements\"" }
NumToks == { "1" }

\* The content of a string token
StrVal(tok) ==
    CASE tok = "\"action\""   -> "action"
      [] tok = "\"add\""      -> "add"
      [] tok = "\"update\""   -> "update"
      [] tok = "\"delete\""   -> "delete"
      [] tok = "\"error\""    -> "error"
      [] tok = "\"frob\""     -> "frob"
      [] tok = "\"elements\"" -> "elements"

\* JavaScript values as JSON.parse builds them
JV(t, s, keys, items) == [t |-> t, s |-> s, keys |-> keys, items |-> items]
JNum(tok) == JV("number", tok, << >>, << >>)
JStr(s) == JV("string", s, << >>, << >>)
JArr(items) == JV("array", "", << >>, items)
JObj(keys, items) == JV("object", "", keys, items)
JUndefined == JV("undefined", "", << >>, << >>)

Parsed(val, next) == [ok |-> TRUE, val |-> val, next |-> next]
SyntaxError == [ok |-> FALSE, val |-> JUndefined, next |-> 0]

RECURSIVE ParseValue(_, _)
RECURSIVE ParseItems(_, _, _)
RECURSIVE ParseMembers(_, _, _, _)
\* one JSON value starting at token i
ParseValue(t, i) ==
    IF i > Len(t) THEN SyntaxError
    ELSE IF t[i] \in NumToks THEN Parsed(JNum(t[i]), i + 1)
    ELSE IF t[i] \in StrToks THEN Parsed(JStr(StrVal(t[i])), i + 1)
    ELSE IF t[i] = "["
         THEN IF i + 1 <= Len(t) /\ t[i + 1] = "]"
              THEN Parsed(JArr(<< >>), i + 2)
              ELSE ParseItems(t, i + 1, << >>)
    ELSE IF t[i] = "{"
         THEN IF i + 1 <= Len(t) /\ t[i + 1] = "}"
              THEN Parsed(JObj(<< >>, << >>), i + 2)
              ELSE ParseMembers(t, i + 1, << >>, << >>)
    ELSE SyntaxError

\* the items of an array, the first of them starting at token i
ParseItems(t, i, acc) ==
    LET v == ParseValue(t, i) IN
    IF ~v.ok \/ v.next > Len(t) THEN SyntaxError
    ELSE IF t[v.next] = "," THEN ParseItems(t, v.next + 1, Append(acc, v.val))
    ELSE IF t[v.next] = "]" THEN Parsed(JArr(Append(acc, v.val)), v.next + 1)
    ELSE SyntaxError

\* the members of an object, the first of them starting at token i
ParseMembers(t, i, keys, items) ==
    IF i + 1 > Len(t) \/ t[i] \notin StrToks \/ t[i + 1] # ":" THEN SyntaxError
    ELSE LET v == ParseValue(t, i + 2) IN
         IF ~v.ok \/ v.next > Len(t) THEN SyntaxError
         ELSE IF t[v.next] = ","
              THEN ParseMembers(t, v.next + 1, Append(keys, StrVal(t[i])),
                                Append(items, v.val))
         ELSE IF t[v.next] = "}"
              THEN Parsed(JObj(Append(keys, StrVal(t[i])), Append(items, v.val)),
                          v.next + 1)
         ELSE SyntaxError

\* JSON.parse: the value of the whole text, or a SyntaxError
JSONparse(t) ==
    LET v == ParseValue(t, 1) IN
    IF v.ok /\ v.next = Len(t) + 1 THEN v ELSE SyntaxError

\* obj[k]: the last member of that name, undefined without one
RECURSIVE Member(_, _, _)
Member(obj, k, n) ==
    IF obj.t # "object" \/ n = 0 THEN JUndefined
    ELSE IF obj.keys[n] = k THEN obj.items[n]
    ELSE Member(obj, k, n - 1)
Get(obj, k) == Member(obj, k, Len(obj.keys))

\* Response texts the model can send
ActionText(a) == << "{", "\"action\"", ":", a, ",", "\"elements\"", ":", "[", "1", "]", "}" >>
Responses ==
    { ActionText("\"add\""), ActionText("\"update\""), ActionText("\"delete\""),
      ActionText("\"error\""), ActionText("\"frob\""), ActionText("1"),
      << "{", "\"elements\"", ":", "[", "1", "]", "}" >>,
      << "{", "}" >>,
      << "[", "1", "]" >>,
      << "1" >>,
      << "\"add\"" >>,
      << >>,
      << "{", "\"action\"", ":", "\"add\"", "," >>,
      << "{", "\"action\"", "\"add\"", "}" >>,
      << "{", "\"action\"", ":", "\"add\"", "}", "}" >>,
      << "[", "1", ",", "]" >> }

\* Stream messages: text that is not JSON, JSON without a data member,
\* data without a response member, and data carrying a response text
Messages ==
    { [outer |-> o, response |-> << >>] : o \in { "garbage", "nodata", "noresponse" } }
    \cup { [outer |-> "ok", response |-> r] : r \in Responses }

\* What one run of the handler does: the promise the async handler returns,
\* whether the parse error was logged, and the calls of onCanvasUpdate
Handled(promise, logged, updates) == [promise |-> promise, logged |-> logged, calls |-> updates]

TextStreamHandler(message) ==
    IF message.outer = "garbage" THEN Handled("rejected: SyntaxError", FALSE, << >>)
    ELSE IF message.outer = "nodata" THEN Handled("rejected: TypeError", FALSE, << >>)
    ELSE IF message.outer = "noresponse" THEN Handled("resolved", TRUE, << >>)
    ELSE LET parsedResponse == JSONparse(message.response) IN
         IF parsedResponse.ok
         THEN Handled("resolved", FALSE, << parsedResponse.val >>)
         ELSE Handled("resolved", TRUE, << >>)

\* ---- bound: messages received on the stream
StreamMessages == 2

TextStream(message) ==
    /\ Len(streamLog) < StreamMessages
    /\ LET h == TextStreamHandler(message) IN
         /\ streamLog' = Append(streamLog, [message |-> message, promise |-> h.promise,
                                            logged |-> h.logged, calls |-> Len(h.calls)])
         /\ canvasUpdates' = canvasUpdates \o h.calls
    /\ UNCHANGED << dispVars, frontVars, promptVars, clientVars, mergeVars >>

StreamNext == Len(streamLog) < StreamMessages /\ \E message \in Messages : TextStream(message)

StreamSpec == FrontOnly /\ [][StreamNext]_vars

(* ---------------------------------------------------------------------- *)
(* C24                                                                     *)
(* ---------------------------------------------------------------------- *)
RecognisedActions == { "add", "update", "delete", "error" }

IsRecognisedAction(v) ==
    v.t = "object" /\ Get(v, "action").t = "string" /\ Get(v, "action").s \in RecognisedActions

\* C24: onCanvasUpdate is invoked only with a recognised action: a response
\* text that is not valid JSON, or is valid JSON without an action among
\* add, update, delete and error, does not reach it.
C24_OnlyRecognisedActionsReachCallback ==
    /\ \A i \in 1..Len(canvasUpdates) : IsRecognisedAction(canvasUpdates[i])
    /\ \A i \in 1..Len(streamLog) :
          streamLog[i].calls = 1 =>
             /\ streamLog[i].message.outer = "ok"
             /\ JSONparse(streamLog[i].message.response).ok
             /\ IsRecognisedAction(JSONparse(streamLog[i].message.response).val)

(* ---------------------------------------------------------------------- *)
(* C25                                                                     *)
(* ---------------------------------------------------------------------- *)
\* the message carries no recognised action: it is not JSON, has no
\* response, or its response is not JSON or has no known action member
Malformed(message) ==
    \/ message.outer # "ok"
    \/ ~JSONparse(message.response).ok
    \/ ~IsRecognisedAction(JSONparse(message.response).val)

\* C25: a failure leaves the scene as it was and produces exactly one
\* failure outcome, not a crash or a hang: here, for a malformed response,
\* the handler ends normally, reports the failure once and hands nothing to
\* the canvas, so that the scene stays unmodified.
C25_FailureLeavesSceneOneOutcome ==
    /\ scene = << >>
    /\ \A i \in 1..Len(streamLog) :
          Malformed(streamLog[i].message) =>
             /\ streamLog[i].promise = "resolved"
             /\ streamLog[i].logged
             /\ streamLog[i].calls = 0

(* ====================================================================== *)
(* The scene: interactive additions and the actions of the model           *)
(* ====================================================================== *)
\* `${type}-${Date.now()}-${Math.random().toString(36).substr(2, 9)}`:
\* an id is its three parts, and two ids are the same text exactly when
\* the parts agree
generateElementId(type, ms, rnd) == << type, ms, rnd >>

\* values of Math.random().toString(36).substr(2, 9)
Rands == { "r1", "r2" }

\* values of 100 + Math.random() * 200 for x and for y
RandomPositions == { << 100, 100 >>, << 200, 150 >> }

\* convertToExcalidrawElements([{ type: "diamond", ... }], { regenerateIds: false })[0]:
\* the skeleton with its id kept and the defaults of a new element filled in
NewDiamond(id, x, y) ==
    [id |-> id, type |-> "diamond", x |-> x, y |-> y, width |-> 150, height |-> 100,
     backgroundColor |-> "#a5d8ff", strokeWidth |-> 2, version |-> 1, isDeleted |-> FALSE]

\* excalidrawAPI.current.getSceneElements(): the elements of the scene that
\* are not deleted, in the order of the scene (the editor keeps the deleted
\* ones aside, for getSceneElementsIncludingDeleted)
getSceneElements(s) == SelectSeq(s, LAMBDA el : ~el.isDeleted)

\* [...currentElements, newElement]
AppendElement(currentElements, newElement) == Append(currentElements, newElement)

\* Add{elements}, Update{elements}, Delete{ids}, Error{message}
Action(kind, els, ids, message) ==
    [kind |-> kind, elements |-> els, ids |-> ids, message |-> message]

\* one entry of the history of the scene
Merged(op, action, verdict, before) ==
    [op |-> op, action |-> action, verdict |-> verdict, before |-> before]

\* ---- bound: operations on the scene
MergeSteps == 3

\* the elements onChange is given: those of the scene, their x, y, width and
\* height, which the scene holds in pixels, in the units of 1/128 in which
\* the comparison of scenes counts
InUnits(s) ==
    [ i \in 1..Len(s) |->
        [s[i] EXCEPT !.x = @ * 128, !.y = @ * 128,
                     !.width = @ * 128, !.height = @ * 128] ]

\* the Add Diamond button, with the scene API in place; updateScene({
\* elements }) makes the list it is given the elements of the scene, and
\* the editor calls onChange, which is handleChange, with them
AddDiamond(rnd, pos) ==
    /\ Len(mergeLog) < MergeSteps
    /\ LET currentElements == getSceneElements(scene)
           newElement == NewDiamond(generateElementId("diamond", now, rnd), pos[1], pos[2])
           updatedElements == AppendElement(currentElements, newElement)
       IN  /\ scene' = updatedElements
           /\ mergeLog' = Append(mergeLog,
                  Merged("addDiamond", Action("add", << newElement >>, << >>, ""),
                         "applied", scene))
           /\ \E appState \in AppStates : HandleChange(InUnits(updatedElements), appState)
    /\ UNCHANGED << dispVars, promptVars, clientVars, streamVars >>

(* ---------------------------------------------------------------------- *)
(* validation and application of an action (specification 4.4, 4.5)        *)
(* ---------------------------------------------------------------------- *)
IdsIn(s) == { s[i].id : i \in 1..Len(s) }

Referable_deletedToo(s) == IdsIn(s)

\* ids an update or a delete may name: the non-deleted elements
Referable(s) == { s[i].id : i \in { k \in 1..Len(s) : ~s[k].isDeleted } }

\* ids an action names
NamedIds(action) ==
    IF action.kind = "delete" THEN { action.ids[j] : j \in 1..Len(action.ids) }
    ELSE IdsIn(action.elements)

\* no id twice among the elements of the action
DistinctIds(els) == \A i, j \in 1..Len(els) : els[i].id = els[j].id => i = j

\* the verdict on an action against the current scene
Validate(action, s) ==
    CASE action.kind = "error" -> "surfaced"
      [] action.kind = "add" ->
            IF DistinctIds(action.elements) /\ NamedIds(action) \cap IdsIn(s) = {}
            THEN "applied" ELSE "DuplicateId"
      [] action.kind \in { "update", "delete" } ->
            IF NamedIds(action) \subseteq Referable(s)
            THEN "applied" ELSE "UnknownElementReference"

ShallowMerge_clearing(el, upd) ==
    [f \in DOMAIN el \cup DOMAIN upd |->
        IF f \in DOMAIN upd THEN upd[f]
        ELSE IF f \in { "x", "y", "width", "height" } THEN 0 ELSE el[f]]

\* the fields of upd laid over those of el
ShallowMerge(el, upd) ==
    [f \in DOMAIN el \cup DOMAIN upd |-> IF f \in DOMAIN upd THEN upd[f] ELSE el[f]]

\* the updated element: merged fields, version one higher
Updated(el, upd) == [ShallowMerge(el, upd) EXCEPT !["version"] = el.version + 1]

Tombstone_remove(s, ids) == SelectSeq(s, LAMBDA el : el.id \notin ids)

\* isDeleted set on every element named, nothing removed
Tombstone(s, ids) ==
    [i \in 1..Len(s) |-> IF s[i].id \in ids THEN [s[i] EXCEPT !["isDeleted"] = TRUE] ELSE s[i]]

RECURSIVE AppendAll(_, _)
AppendAll(s, els) ==
    IF els = << >> THEN s ELSE AppendAll(AppendElement(s, Head(els)), Tail(els))

\* apply(scene, action) for a validated action
Apply(s, action) ==
    CASE action.kind = "add" -> AppendAll(s, action.elements)
      [] action.kind = "update" ->
            [i \in 1..Len(s) |->
                IF s[i].id \in NamedIds(action)
                THEN Updated(s[i], action.elements[
                        CHOOSE j \in 1..Len(action.elements) : action.elements[j].id = s[i].id])
                ELSE s[i]]
      [] action.kind = "delete" -> Tombstone(s, NamedIds(action))
      [] action.kind = "error" -> s

\* ids the model names: one that the Add Diamond button can also produce,
\* one of the model's own, one that is never in the scene
IdA == generateElementId("diamond", 0, "r1")
IdB == generateElementId("rectangle", 0, "m1")
IdC == generateElementId("ellipse", 0, "m2")

\* an element of an Add action after default filling
ModelElement(id) ==
    [id |-> id, type |-> id[1], x |-> 0, y |-> 0, width |-> 10, height |-> 10,
     backgroundColor |-> "#ffffff", strokeWidth |-> 1, version |-> 1, isDeleted |-> FALSE]

ModelActions ==
    { Action("add", << ModelElement(IdA) >>, << >>, ""),
      Action("add", << ModelElement(IdA), ModelElement(IdB) >>, << >>, ""),
      Action("add", << ModelElement(IdB), ModelElement(IdB) >>, << >>, ""),
      Action("update", << [id |-> IdA, x |-> 7] >>, << >>, ""),
      Action("update", << [id |-> IdA, backgroundColor |-> "#ff0000", width |-> 9,
                           version |-> 9] >>, << >>, ""),
      Action("update", << [id |-> IdB, y |-> 7], [id |-> IdA, label |-> "hi"] >>, << >>, ""),
      Action("update", << [id |-> IdC, x |-> 7] >>, << >>, ""),
      Action("delete", << >>, << IdA >>, ""),
      Action("delete", << >>, << IdA, IdB >>, ""),
      Action("delete", << >>, << IdC >>, ""),
      Action("error", << >>, << >>, "no such element") }

\* the consumer of onCanvasUpdate for a recognised action: validate against
\* the current scene, then apply or reject
OnCanvasUpdate(action) ==
    /\ Len(mergeLog) < MergeSteps
    /\ LET verdict == Validate(action, scene) IN
         /\ scene' = (IF verdict = "applied" THEN Apply(scene, action) ELSE scene)
         /\ mergeLog' = Append(mergeLog, Merged(action.kind, action, verdict, scene))
    /\ UNCHANGED << dispVars, frontVars, promptVars, clientVars, streamVars >>

MergeNext ==
    \/ \E rnd \in Rands, pos \in RandomPositions : AddDiamond(rnd, pos)
    \/ \E action \in ModelActions : OnCanvasUpdate(action)
    \/ ClockTick

MergeSpec == FrontOnly /\ [][MergeNext]_vars

(* ---------------------------------------------------------------------- *)
(* C26                                                                     *)
(* ---------------------------------------------------------------------- *)
\* the entry the step adds to the history of the scene
LastEntry == mergeLog'[Len(mergeLog')]

\* the ids of the added elements are new to the scene and differ pairwise
FreshUniqueIds(action, s) ==
    DistinctIds(action.elements) /\ IdsIn(action.elements) \cap IdsIn(s) = {}

\* C26: an Add whose ids are fresh and unique is applied, and the scene
\* after it has length len(S) + len(A.elements): every original element is
\* unchanged at its position and the new elements follow at the end, in the
\* order of the action.  This covers the Add Diamond button and the Add
\* action of the model.  The button fails it on a scene that holds a
\* deleted element: it rebuilds the scene from getSceneElements, which
\* leaves the deleted elements out.
C26_AddAppends ==
    [][ (Len(mergeLog') = Len(mergeLog) + 1
           /\ LastEntry.action.kind = "add"
           /\ FreshUniqueIds(LastEntry.action, scene))
        => /\ LastEntry.verdict = "applied"
           /\ Len(scene') = Len(scene) + Len(LastEntry.action.elements)
           /\ \A i \in 1..Len(scene) : scene'[i] = scene[i]
           /\ \A j \in 1..Len(LastEntry.action.elements) :
                 scene'[Len(scene) + j] = LastEntry.action.elements[j] ]_vars

(* ---------------------------------------------------------------------- *)
(* C27                                                                     *)
(* ---------------------------------------------------------------------- *)
\* the element of the update action that names id
UpdateFor(action, id) ==
    action.elements[CHOOSE j \in 1..Len(action.elements) : action.elements[j].id = id]

\* C27: an Update that names existing (non-deleted) elements is applied;
\* each named element keeps every field the update does not carry, takes
\* the fields it carries, and has its version raised by exactly 1; the
\* length and order of the scene and every other element are unchanged.
C27_UpdatePreservesAndBumps ==
    [][ (Len(mergeLog') = Len(mergeLog) + 1
           /\ LastEntry.action.kind = "update"
           /\ NamedIds(LastEntry.action) \subseteq Referable(scene))
        => /\ LastEntry.verdict = "applied"
           /\ Len(scene') = Len(scene)
           /\ \A i \in 1..Len(scene) :
                 /\ scene'[i].id = scene[i].id
                 /\ scene[i].id \notin NamedIds(LastEntry.action) => scene'[i] = scene[i]
                 /\ scene[i].id \in NamedIds(LastEntry.action) =>
                       LET upd == UpdateFor(LastEntry.action, scene[i].id) IN
                       /\ scene'[i].version = scene[i].version + 1
                       /\ \A f \in DOMAIN scene[i] \ (DOMAIN upd \cup { "version" }) :
                             scene'[i][f] = scene[i][f]
                       /\ \A f \in DOMAIN upd \ { "version" } : scene'[i][f] = upd[f]
                       /\ DOMAIN scene'[i] = DOMAIN scene[i] \cup DOMAIN upd ]_vars

\* x of the first of two elements was updated: its version is 2, its other
\* fields and the second element are as added
C27_Witness ==
    /\ Len(mergeLog) = 2 /\ Len(scene) = 2
    /\ mergeLog[2].verdict = "applied"
    /\ mergeLog[2].action = Action("update", << [id |-> IdA, x |-> 7] >>, << >>, "")
    /\ scene[1] = [ModelElement(IdA) EXCEPT !.x = 7, !.version = 2]
    /\ scene[2] = ModelElement(IdB)

(* ---------------------------------------------------------------------- *)
(* C28                                                                     *)
(* ---------------------------------------------------------------------- *)
\* C28: a Delete that names existing elements is applied without changing
\* the length or the order of the scene: each named element has isDeleted
\* set and its other fields as before, every other element is unchanged;
\* and the same Delete once more, through the validator or applied directly,
\* gives the scene that one application gave.
C28_DeleteTombstonesIdempotent ==
    [][ (Len(mergeLog') = Len(mergeLog) + 1 /\ LastEntry.action.kind = "delete")
        => /\ NamedIds(LastEntry.action) \subseteq Referable(scene) =>
                /\ LastEntry.verdict = "applied"
                /\ Len(scene') = Len(scene)
                /\ \A i \in 1..Len(scene) :
                      IF scene[i].id \in NamedIds(LastEntry.action)
                      THEN scene'[i] = [scene[i] EXCEPT !.isDeleted = TRUE]
                      ELSE scene'[i] = scene[i]
                /\ Apply(scene', LastEntry.action) = scene'
           /\ (Len(mergeLog) >= 1
                 /\ mergeLog[Len(mergeLog)].action = LastEntry.action
                 /\ mergeLog[Len(mergeLog)].verdict = "applied")
              => scene' = scene ]_vars

\* the first of two elements was deleted and the same Delete came again:
\* both elements are there, the first as a tombstone
C28_Witness ==
    /\ Len(mergeLog) = 3 /\ Len(scene) = 2
    /\ mergeLog[2].action = Action("delete", << >>, << IdA >>, "")
    /\ mergeLog[2].verdict = "applied"
    /\ mergeLog[3].action = mergeLog[2].action
    /\ scene[1] = [ModelElement(IdA) EXCEPT !.isDeleted = TRUE]
    /\ scene[2] = ModelElement(IdB)

(* ---------------------------------------------------------------------- *)
(* C29                                                                     *)
(* ---------------------------------------------------------------------- *)
\* C29: an Update or a Delete naming an id that is not a non-deleted element
\* of the current scene is rejected with UnknownElementReference and not
\* applied: the scene is unchanged, so no element appears for that id.
C29_UnknownReferenceRejected ==
    [][ (Len(mergeLog') = Len(mergeLog) + 1
           /\ LastEntry.action.kind \in { "update", "delete" }
           /\ \E id \in NamedIds(LastEntry.action) :
                 \A i \in 1..Len(scene) : scene[i].id = id => scene[i].isDeleted)
        => /\ LastEntry.verdict = "UnknownElementReference"
           /\ scene' = scene
           /\ IdsIn(scene') = IdsIn(scene) ]_vars

\* an element was added and deleted, and an Update naming it was refused:
\* the tombstone is as the Delete left it
C29_Witness ==
    /\ Len(mergeLog) = 3 /\ Len(scene) = 1
    /\ mergeLog[2].action.kind = "delete" /\ mergeLog[2].verdict = "applied"
    /\ mergeLog[3].action = Action("update", << [id |-> IdA, x |-> 7] >>, << >>, "")
    /\ mergeLog[3].verdict = "UnknownElementReference"
    /\ scene[1] = [ModelElement(IdA) EXCEPT !.isDeleted = TRUE]

(* ---------------------------------------------------------------------- *)
(* C30                                                                     *)
(* ---------------------------------------------------------------------- *)
\* C30: whatever additions, updates and deletions were made, by the model
\* or by hand, no two non-deleted elements of the scene share an id; and an
\* addition of an element whose id is already in the scene was rejected
\* with DuplicateId, leaving the scene as it was.
C30_UniqueIds ==
    /\ \A i, j \in 1..Len(scene) :
          (~scene[i].isDeleted /\ ~scene[j].isDeleted /\ scene[i].id = scene[j].id) => i = j
    /\ \A n \in 1..Len(mergeLog) :
          (mergeLog[n].action.kind = "add"
             /\ IdsIn(mergeLog[n].action.elements) \cap IdsIn(mergeLog[n].before) # {})
          => mergeLog[n].verdict = "DuplicateId"

(* ====================================================================== *)
(* linkElements: an arrow between the last two elements                    *)
(* ====================================================================== *)
\* currentElements.filter((el) => !el.isDeleted && el.type !== "arrow")
Linkable(el) == ~el.isDeleted /\ el.type # "arrow"

NonDeleted_all(currentElements) == currentElements

NonDeleted(currentElements) == SelectSeq(currentElements, Linkable)

\* n / 2; the widths and heights of the scenes here are even
Half(n) == n \div 2

\* ids convertToExcalidrawElements gives an element whose skeleton has none;
\* << >> stands for an empty id
LibraryIds == { << >>, generateElementId("lib", 0, "a1") }

\* convertToExcalidrawElements([arrowSkeleton], { regenerateIds: false })[0]:
\* the skeleton's geometry and style with the defaults of a new element
ArrowElement(element1, element2, libId) ==
    LET x1 == element1.x + Half(element1.width)
        y1 == element1.y + Half(element1.height)
        x2 == element2.x + Half(element2.width)
        y2 == element2.y + Half(element2.height)
    IN  [id |-> libId, type |-> "arrow", x |-> x1, y |-> y1, width |-> x2 - x1,
         height |-> y2 - y1, strokeColor |-> "#1971c2", strokeWidth |-> 2,
         version |-> 1, isDeleted |-> FALSE]

\* arrowElement.id || generateElementId("arrow")
ArrowId(arrowElement, ms, rnd) ==
    IF arrowElement.id # << >> THEN arrowElement.id ELSE generateElementId("arrow", ms, rnd)

Binding(elementId) == [elementId |-> elementId, focus |-> 0, gap |-> 1]

\* { ...arrowElement, id: arrowId, startBinding: ..., endBinding: ... }
ArrowWithBindings(arrowElement, arrowId, element1, element2) ==
    [f \in DOMAIN arrowElement \cup { "startBinding", "endBinding" } |->
        CASE f = "id" -> arrowId
          [] f = "startBinding" -> Binding(element1.id)
          [] f = "endBinding" -> Binding(element2.id)
          [] OTHER -> arrowElement[f]]

\* element.boundElements || []
BoundElementsOf(el) == IF "boundElements" \in DOMAIN el THEN el.boundElements ELSE << >>

\* { ...element, boundElements: [...(element.boundElements || []), { id: arrowId, type: "arrow" }] }
WithBound(el, arrowId) ==
    [f \in DOMAIN el \cup { "boundElements" } |->
        IF f = "boundElements"
        THEN Append(BoundElementsOf(el), [id |-> arrowId, type |-> "arrow"])
        ELSE el[f]]

\* currentElements.map((el) => el.id === element1.id ? updatedElement1
\*                           : el.id === element2.id ? updatedElement2 : el)
MapUpdated(currentElements, element1, element2, arrowId) ==
    [i \in 1..Len(currentElements) |->
        IF currentElements[i].id = element1.id THEN WithBound(element1, arrowId)
        ELSE IF currentElements[i].id = element2.id THEN WithBound(element2, arrowId)
        ELSE currentElements[i]]

\* ---- bound: uses of the link button
LinkSteps == 2

\* the Link Last 2 Elements button, with the scene API in place; after
\* updateScene the editor calls onChange, which is handleChange
LinkElements(libId, rnd) ==
    /\ Len(mergeLog) < MergeSteps + LinkSteps
    /\ Cardinality({ n \in 1..Len(mergeLog) : mergeLog[n].op = "link" }) < LinkSteps
    /\ LET currentElements == getSceneElements(scene)
           nonDeletedElements == NonDeleted(currentElements)
       IN  IF Len(nonDeletedElements) < 2
           THEN /\ scene' = scene
                /\ mergeLog' = Append(mergeLog,
                       Merged("link", Action("link", << >>, << >>, ""), "alert", scene))
                /\ UNCHANGED frontVars
           ELSE LET element1 == nonDeletedElements[Len(nonDeletedElements) - 1]
                    element2 == nonDeletedElements[Len(nonDeletedElements)]
                    arrowElement == ArrowElement(element1, element2, libId)
                    arrowId == ArrowId(arrowElement, now, rnd)
                    arrowWithBindings ==
                        ArrowWithBindings(arrowElement, arrowId, element1, element2)
                    updatedElements == MapUpdated(currentElements, element1, element2, arrowId)
                    finalElements == AppendElement(updatedElements, arrowWithBindings)
                IN  /\ scene' = finalElements
                    /\ mergeLog' = Append(mergeLog,
                           Merged("link", Action("link", << arrowWithBindings >>,
                                                 << element1.id, element2.id >>, ""),
                                  "applied", scene))
                    /\ \E appState \in AppStates :
                          HandleChange(InUnits(finalElements), appState)
    /\ UNCHANGED << dispVars, promptVars, clientVars, streamVars >>

\* the actions of the model used beside the buttons
LinkActions ==
    { Action("add", << ModelElement(IdA), ModelElement(IdB) >>, << >>, ""),
      Action("delete", << >>, << IdA >>, "") }

LinkNext ==
    \/ \E rnd \in Rands : AddDiamond(rnd, << 100, 100 >>)
    \/ \E action \in LinkActions : OnCanvasUpdate(action)
    \/ \E libId \in LibraryIds, rnd \in Rands : LinkElements(libId, rnd)

LinkSpec == FrontOnly /\ [][LinkNext]_vars

(* ---------------------------------------------------------------------- *)
(* C31                                                                     *)
(* ---------------------------------------------------------------------- *)
\* positions of the elements of s an arrow may be bound to
Eligible(s) == { i \in 1..Len(s) : ~s[i].isDeleted /\ s[i].type # "arrow" }

\* the step is a use of the link button
LinkStep == Len(mergeLog') = Len(mergeLog) + 1 /\ LastEntry.op = "link"

\* C31: the arrow linkElements creates is bound, at its start and at its
\* end, to two different elements that are in the scene at that moment,
\* non-deleted and not arrows, and that are in the scene it is put into;
\* with fewer than two such elements no arrow is created and the scene is
\* unchanged.
C31_ArrowEndpointsExist ==
    [][ LinkStep =>
          IF Cardinality(Eligible(scene)) < 2
          THEN scene' = scene /\ LastEntry.verdict = "alert"
          ELSE LET arrow == scene'[Len(scene')] IN
               /\ LastEntry.verdict = "applied"
               /\ arrow.type = "arrow"
               /\ \E p, q \in Eligible(scene) :
                     /\ p # q
                     /\ arrow.startBinding.elementId = scene[p].id
                     /\ arrow.endBinding.elementId = scene[q].id
               /\ \E i, j \in Eligible(scene') :
                     /\ i # j
                     /\ arrow.startBinding.elementId = scene'[i].id
                     /\ arrow.endBinding.elementId = scene'[j].id ]_vars

\* the button was used on a scene whose first element was a tombstone, and
\* the arrow joins the two elements after it
C31_Witness ==
    /\ Len(mergeLog) = 4
    /\ mergeLog[4].op = "link" /\ mergeLog[4].verdict = "applied"
    /\ mergeLog[4].before[1].id = IdA /\ mergeLog[4].before[1].isDeleted
    /\ Len(scene) = 3
    /\ scene[3].type = "arrow"
    /\ scene[3].startBinding.elementId = IdB
    /\ scene[3].endBinding.elementId = generateElementId("diamond", 0, "r2")

(* ---------------------------------------------------------------------- *)
(* C39                                                                     *)
(* ---------------------------------------------------------------------- *)
\* the greatest member of a non-empty set of positions
MaxPos(S) == CHOOSE i \in S : \A j \in S : j <= i

\* the ids listed in the boundElements of el
BoundIds(el) ==
    IF "boundElements" \in DOMAIN el
    THEN { el.boundElements[k].id : k \in 1..Len(el.boundElements) } ELSE {}

\* C39: after a successful linkElements the arrow is the one element added,
\* at the end; its startBinding and endBinding name the two chosen
\* elements, each of these lists the arrow's id in its boundElements, and
\* every other element is at its place with its content unchanged.
C39_BindingsBothWays ==
    [][ (LinkStep /\ LastEntry.verdict = "applied") =>
          LET q == MaxPos(Eligible(scene))
              p == MaxPos(Eligible(scene) \ { q })
              arrow == scene'[Len(scene')]
          IN  /\ Len(scene') = Len(scene) + 1
              /\ arrow.type = "arrow"
              /\ arrow.startBinding.elementId = scene[p].id
              /\ arrow.endBinding.elementId = scene[q].id
              /\ arrow.id \in BoundIds(scene'[p])
              /\ arrow.id \in BoundIds(scene'[q])
              /\ \A i \in (1..Len(scene)) \ { p, q } : scene'[i] = scene[i] ]_vars

(* ---------------------------------------------------------------------- *)
(* C32                                                                     *)
(* ---------------------------------------------------------------------- *)
OtherVariant(v) == IF v = "ollama" THEN "nvidia" ELSE "ollama"

\* C32: the two variants are one dispatcher: in every state the queue and
\* the worker can reach, a provider call in flight (of a request a caller
\* made) can end with the same outcome kinds whichever variant runs it, with
\* the same backend, so that callers see the same returns, also when Close
\* ran before the call began or runs during it.  No other step of the
\* dispatcher looks at the variant.
C32_VariantsSameOutcomes ==
    (wpc = "call" /\ active \cap CallIds # {}) =>
        { kind \in ProviderKinds : MayEnd(variant, kind) }
            = { kind \in ProviderKinds : MayEnd(OtherVariant(variant), kind) }

(* ---------------------------------------------------------------------- *)
(* C33                                                                     *)
(* ---------------------------------------------------------------------- *)
\* the caller of request c left on its ctx after the request was enqueued
LeftAfterEnqueue(c) == calls[c].ret.kind = "Cancelled" /\ c \in EnqReqs

\* C33: the request of a caller that cancelled after enqueueing leaves the
\* queue only by the worker receiving it, in its turn; when its provider
\* call ends the outcome goes into that request's own channel, which has
\* room, nobody reads it (the caller's return stays Cancelled, the outcome
\* stays in the channel), and the worker is back at its select.
C33_CancelledRequestDrained ==
    /\ [][ \A c \in CallIds : LeftAfterEnqueue(c) =>
             /\ (InChan(c) /\ c \notin Range(requestChan'))
                  => (c = Head(requestChan) /\ c \in active' /\ wpc' = "call")
             /\ \A k \in ProviderKinds : EndsCall(c, k) =>
                  /\ Len(resultCh'[c]) + Len(errCh'[c]) = 1
                  /\ \A d \in CallIds \ { c } :
                        resultCh'[d] = resultCh[d] /\ errCh'[d] = errCh[d]
                  /\ calls' = calls
                  /\ wpc' = "select" ]_vars
    /\ [](\A c \in CallIds :
             /\ LeftAfterEnqueue(c) => (InChan(c) \/ c \in StartedReqs)
             /\ (LeftAfterEnqueue(c) /\ c \in EndedReqs)
                  => (Len(resultCh[c]) + Len(errCh[c]) = 1 /\ c \notin active))

\* two callers left after enqueueing; the worker has served the first, whose
\* outcome lies unread, and is inside the call of the second
C33_Witness ==
    \E c, d \in CallIds :
        /\ c # d /\ LeftAfterEnqueue(c) /\ LeftAfterEnqueue(d)
        /\ c \in EndedReqs /\ Len(resultCh[c]) + Len(errCh[c]) = 1
        /\ d \in active /\ wpc = "call" /\ ~ctxDone

(* ---------------------------------------------------------------------- *)
(* C34                                                                     *)
(* ---------------------------------------------------------------------- *)
\* the state of the machine the hook's refs stand for: Pending while the
\* timer of the stored handle is armed, Idle otherwise
Idle == [state |-> "Idle", args |-> << >>, deadline |-> 0]
Pending(args, deadline) == [state |-> "Pending", args |-> args, deadline |-> deadline]

ArmedTimers == { t \in timers : t.id = timeoutRef }

Machine(ts, h, pending) ==
    IF \E t \in ts : t.id = h
    THEN LET t == CHOOSE t \in ts : t.id = h IN Pending(pending, t.due)
    ELSE Idle

\* C34: the timer handle and the pending arguments of the hook are the
\* machine {Idle, Pending(args, deadline)}. A call, in either state, leads
\* to Pending with the call's arguments and the deadline a full delay
\* ahead; the expiry of the deadline in Pending delivers exactly those
\* arguments, once, and leads to Idle with no pending arguments; nothing is
\* delivered in Idle; no other step changes the state, except the unmount,
\* which leads to Idle without a delivery.
C34_TwoStateMachine ==
    /\ [](/\ timers \subseteq ArmedTimers
          /\ Cardinality(timers) <= 1
          /\ timers # {} => pendingArgsRef # << >>)
    /\ [][ LET m == Machine(timers, timeoutRef, pendingArgsRef)
               n == Machine(timers', timeoutRef', pendingArgsRef')
           IN  IF Len(callLog') > Len(callLog)
               THEN /\ n = Pending(<< callLog'[Len(callLog')].args >>, now + DEBOUNCE_DELAY)
                    /\ delivered' = delivered
               ELSE IF timers' # timers /\ mounted' = mounted
               THEN /\ m.state = "Pending" /\ now >= m.deadline
                    /\ delivered' = Append(delivered, delivered'[Len(delivered')])
                    /\ << delivered'[Len(delivered')].args >> = m.args
                    /\ n = Idle /\ pendingArgsRef' = << >>
               ELSE /\ delivered' = delivered
                    /\ n = m \/ (mounted /\ ~mounted' /\ n = Idle) ]_vars
    /\ [][ Machine(timers, timeoutRef, pendingArgsRef) = Idle => delivered' = delivered ]_vars

\* a call in Pending replaced the arguments and the deadline, and the
\* expiry delivered the later arguments and left the machine Idle
C34_Witness ==
    /\ Len(callLog) = 2 /\ Len(delivered) = 1
    /\ callLog[1].args # callLog[2].args
    /\ callLog[2].at > callLog[1].at
    /\ delivered[1].args = callLog[2].args
    /\ Machine(timers, timeoutRef, pendingArgsRef) = Idle
    /\ pendingArgsRef = << >> /\ timeoutRef # NoTimer

(* ====================================================================== *)
(* handleChange under small successive moves                               *)
(* ====================================================================== *)
\* scenes of one element that moves or grows by one unit (1/128) at a time
DriftScenes ==
    { << >>, << ElA >>, << [ElA EXCEPT !.x = @ + 1] >>, << [ElA EXCEPT !.x = @ + 2] >>,
      << [ElA EXCEPT !.width = @ + 1] >>, << ElA, ElB >> }

\* ---- bound: calls of handleChange in a row of small moves
DriftChanges == 3

DriftNext ==
    /\ Len(changeLog) < DriftChanges
    /\ \E sc \in DriftScenes, a \in AppStates : HandleChange(sc, a)
    /\ UNCHANGED << dispVars, promptVars, laterVars >>

DriftSpec == FrontOnly /\ [][DriftNext]_vars

(* ---------------------------------------------------------------------- *)
(* C35                                                                     *)
(* ---------------------------------------------------------------------- *)
\* some element of both scenes differs by more than 0.01 in x, y, width or
\* height
MovedBeyondEpsilon(p, n) ==
    \E i \in 1..Len(p), j \in 1..Len(n) :
        /\ p[i].id = n[j].id
        /\ \/ Exceeds(p[i].x, n[j].x) \/ Exceeds(p[i].y, n[j].y)
           \/ Exceeds(p[i].width, n[j].width) \/ Exceeds(p[i].height, n[j].height)

\* the scene most recently forwarded to the notifier; none forwarded yet is
\* the empty scene of the first render
LastForwarded == IF callLog = << >> THEN << >> ELSE callLog[Len(callLog)].args[1]

\* C35: whenever the scene last passed to handleChange differs from the
\* scene last forwarded by more than 0.01 in x, y, width or height of an
\* element, that last scene is the one forwarded: steps below the epsilon
\* do not add up to an unreported change.
C35_NoUnreportedDrift ==
    (changeLog # << >> /\ MovedBeyondEpsilon(LastForwarded, elements))
        => LastForwarded = elements

(* ---------------------------------------------------------------------- *)
(* C36                                                                     *)
(* ---------------------------------------------------------------------- *)
\* C36: every call of handleChange leaves previousElementsRef holding a
\* copy of the scene it was given, forwarded to the notifier or not; so
\* call i compares with the scene of call i - 1 (the first with the empty
\* scene of the first render), not with the scene last notified.
C36_BaselineEveryCall ==
    /\ [][ Len(changeLog') > Len(changeLog) =>
             /\ changeLog'[Len(changeLog')].prev = previousElementsRef
             /\ previousElementsRef' = changeLog'[Len(changeLog')].next
             /\ elements' = changeLog'[Len(changeLog')].next ]_vars
    /\ [](\A i \in 1..Len(changeLog) :
             /\ changeLog[i].prev = (IF i = 1 THEN << >> ELSE changeLog[i - 1].next)
             /\ i = Len(changeLog) => previousElementsRef = changeLog[i].next)

\* the second call was not forwarded and the baseline is its scene, which
\* is not the scene last notified
C36_Witness ==
    /\ Len(changeLog) = 2 /\ Len(callLog) = 1
    /\ changeLog[2].next # changeLog[1].next
    /\ previousElementsRef = changeLog[2].next
    /\ callLog[1].args[1] = changeLog[1].next

(* ---------------------------------------------------------------------- *)
(* C37                                                                     *)
(* ---------------------------------------------------------------------- *)
\* n holds the elements of p, each as it was, in another sequence order
IsReordering(p, n) ==
    /\ Len(p) = Len(n) /\ p # n
    /\ \A i \in 1..Len(p) : \E j \in 1..Len(n) : n[j] = p[i]
    /\ \A j \in 1..Len(n) : \E i \in 1..Len(p) : p[i] = n[j]

\* notifier calls made before call i of handleChange
CallsBefore(i) == IF i = 1 THEN 0 ELSE changeLog[i - 1].calls

\* C37: a scene that is the previous scene in another order, every element
\* as it was, is not forwarded to the notifier: the comparison goes by id
\* and does not see the order.
C37_ReorderingNotForwarded ==
    \A i \in 1..Len(changeLog) :
        IsReordering(changeLog[i].prev, changeLog[i].next)
            => changeLog[i].calls = CallsBefore(i)

\* the two elements came in the other order and the notifier was not called
\* again
C37_Witness ==
    /\ Len(changeLog) = 2
    /\ changeLog[2].prev = << ElA, ElB >>
    /\ changeLog[2].next = << ElB, ElA >>
    /\ Len(callLog) = 1

(* ---------------------------------------------------------------------- *)
(* C38                                                                     *)
(* ---------------------------------------------------------------------- *)
\* C38: a delivery invokes the callback that is current when the timer
\* fires, that of the latest render with its boardId and onStateChange, and
\* not the one that was current when the call was made.
C38_DeliveryUsesCurrentCallback ==
    [][ Len(delivered') > Len(delivered) =>
          /\ delivered'[Len(delivered')].cb = callbackRef
          /\ delivered'[Len(delivered')].args = callLog[Len(callLog)].args ]_vars

\* the elements recorded under the first render were delivered to the
\* callback of the second
C38_Witness ==
    /\ Len(callLog) = 1 /\ Len(delivered) = 1
    /\ callLog[1].cb = FirstRender
    /\ callLog[1].args = << << ElA >>, "view" >>
    /\ delivered[1].args = callLog[1].args
    /\ delivered[1].cb = FirstRender + 1

(* ---------------------------------------------------------------------- *)
(* C40                                                                     *)
(* ---------------------------------------------------------------------- *)
TimerIds(ts) == { t.id : t \in ts }

\* C40: at most one timer is armed at any time, and it is the one whose
\* handle is stored; a call leaves exactly its own, new timer armed, the
\* one stored before being cleared; a timer that fires is the stored one,
\* never a superseded one; and no call's arguments are delivered twice.
C40_AtMostOneTimer ==
    /\ [](Cardinality(timers) <= 1 /\ TimerIds(timers) \subseteq { timeoutRef })
    /\ [](\A i, j \in 1..Len(delivered) : delivered[i].calls = delivered[j].calls => i = j)
    /\ [][ Len(callLog') > Len(callLog) =>
             /\ timeoutRef' \notin TimerIds(timers) \cup { timeoutRef }
             /\ TimerIds(timers') = { timeoutRef' } ]_vars
    /\ [][ Len(delivered') > Len(delivered) =>
             /\ TimerIds(timers) = { timeoutRef }
             /\ timers' = {}
             /\ delivered'[Len(delivered')].calls = Len(callLog) ]_vars

\* the deadline of the first call has passed without a delivery: the second
\* call cleared that timer and only its own is armed
C40_Witness ==
    /\ Len(callLog) = 2 /\ delivered = << >>
    /\ callLog[1].at = 0 /\ callLog[2].at = Tick
    /\ now >= callLog[1].at + DEBOUNCE_DELAY
    /\ timers = { [id |-> timeoutRef, due |-> callLog[2].at + DEBOUNCE_DELAY] }
    /\ mounted

====
